---- MODULE Spec2Model ----
(***************************************************************************)
(* A model of the recipe search engine of src/crawler/recipe_search.py     *)
(* (class RecipeSearcher): the recipe store, the four inverted indices     *)
(* built at construction from a JSON source, and the five query            *)
(* operations.                                                             *)
(*                                                                         *)
(* A text is a sequence of one-character strings, a token is a text, a     *)
(* recipe record is a function from field names to values (a Python dict), *)
(* an index is a function from tokens to sets of recipe ids (positions in  *)
(* self.recipes, counted from 0 as enumerate() does).                      *)
(*                                                                         *)
(* Beside the engine, the module models the URL tracking and the scraping  *)
(* loop of RecipeCrawler (src/crawler/recipe_crawler.py).                  *)
(***************************************************************************)
EXTENDS Naturals, Sequences, FiniteSets

VARIABLES json_file,          \* the JSON source the constructor was given
          status,             \* "ready", or "raised" when the constructor raised
          recipes,            \* self.recipes
          title_index,        \* self.title_index
          ingredient_index,   \* self.ingredient_index
          instruction_index,  \* self.instruction_index
          keyword_index,      \* self.keyword_index
          set_order,          \* the order in which a set of recipe ids iterates
          build_pc,           \* whether build_search_indices runs, and its next id
          last,               \* the query call just made and what it returned
          memo,               \* an earlier call a caller kept to compare with
          attempted_urls,     \* RecipeCrawler: self.attempted_urls
          successful_urls,    \* self.successful_urls
          failed_urls,        \* self.failed_urls
          skipped_urls,       \* self.skipped_urls
          urls,               \* scrape_multiple_recipes: its argument urls
          scrape_results,     \* its list results
          answers,            \* what the site and the clipper did at each url
          site,               \* crawl_from_base: the site that is crawled
          base_url,           \* its argument base_url
          limit,              \* its argument limit
          discovered_urls,    \* its set discovered_urls
          visited_urls,       \* its set visited_urls
          urls_to_visit,      \* its list urls_to_visit
          fetches,            \* the pages session.get asked for, and the outcome
          crawl_pc,           \* where it is: "while", "return", "done"
          result_urls,        \* what it returned, as a set
          scraper_failed_urls, \* PacificNorthwestScraper: self.failed_urls
          scrape_call,        \* the call that runs: who asked, and the url
          scraped,            \* the urls scrape_recipe was called with
          max_retries,        \* get_page_content: its argument max_retries
          attempt,            \* its loop variable attempt
          gets,               \* how each session.get of the call ended
          sleeps,             \* the seconds of each time.sleep of the call
          soup,               \* what the call returned: "soup" or "None"
          scraper_pc          \* where the scraper is

engine == <<json_file, status, recipes, title_index, ingredient_index,
            instruction_index, keyword_index, set_order, build_pc>>
vars == <<json_file, status, recipes, title_index, ingredient_index,
          instruction_index, keyword_index, set_order, build_pc, last, memo,
          attempted_urls, successful_urls, failed_urls, skipped_urls,
          urls, scrape_results, answers,
          site, base_url, limit, discovered_urls, visited_urls, urls_to_visit,
          fetches, crawl_pc, result_urls,
          scraper_failed_urls, scrape_call, scraped, max_retries, attempt,
          gets, sleeps, soup, scraper_pc>>

\* The state of the RecipeSearcher, and of the RecipeCrawler.
searcher == <<engine, last, memo>>
tracking == <<attempted_urls, successful_urls, failed_urls, skipped_urls>>
scraping == <<urls, scrape_results, answers>>
crawl == <<site, base_url, limit, discovered_urls, visited_urls,
           urls_to_visit, fetches, crawl_pc, result_urls>>
scraper == <<scraper_failed_urls, scrape_call, scraped, max_retries, attempt,
             gets, sleeps, soup, scraper_pc>>
crawler == <<tracking, scraping, crawl, scraper>>

\* The largest number of records in the store.
MaxRecipes == 2

(***************************************************************************)
(* Characters: str.lower(), str.upper() and the regex class \w.            *)
(***************************************************************************)
UpperLetters == <<"A","B","C","D","E","F","G","H","I","J","K","L","M",
                  "N","O","P","Q","R","S","T","U","V","W","X","Y","Z">>
LowerLetters == <<"a","b","c","d","e","f","g","h","i","j","k","l","m",
                  "n","o","p","q","r","s","t","u","v","w","x","y","z">>
Digits == {"0","1","2","3","4","5","6","7","8","9"}

Range(s) == {s[k] : k \in DOMAIN s}

\* A letter without upper-case form of its own: str.lower() leaves the
\* sharp s as it is, and it is alphanumeric.
SharpS == "ß"

LowerCharMap ==
  [c \in Range(UpperLetters) |->
     LowerLetters[CHOOSE k \in DOMAIN UpperLetters : UpperLetters[k] = c]]
\* str.lower() on one character.
LowerChar(c) == IF c \in DOMAIN LowerCharMap THEN LowerCharMap[c] ELSE c

\* str.lower()
Lower(text) == [k \in DOMAIN text |-> LowerChar(text[k])]

\* str.isalnum() on one character.
IsAlnum(c) == \/ c \in Range(UpperLetters)
              \/ c \in Range(LowerLetters)
              \/ c \in Digits
              \/ c = SharpS

\* The regex class \w of a str pattern: the alphanumerics and the underscore.
IsWordChar(c) == IsAlnum(c) \/ c = "_"

\* re.findall(r'\b\w+\b', text) from position k on, run being the word in
\* progress: the maximal runs of \w characters, left to right.
RECURSIVE FindWordsFrom(_, _, _)
FindWordsFrom(text, k, run) ==
  IF k > Len(text)
    THEN (IF run = << >> THEN << >> ELSE <<run>>)
    ELSE IF IsWordChar(text[k])
           THEN FindWordsFrom(text, k + 1, Append(run, text[k]))
           ELSE (IF run = << >> THEN << >> ELSE <<run>>)
                  \o FindWordsFrom(text, k + 1, << >>)

\* re.findall(r'\b\w+\b', text.lower())
Words(text) == FindWordsFrom(Lower(text), 1, << >>)

(***************************************************************************)
(* Dicts.                                                                  *)
(***************************************************************************)
\* dict.get(key, default)
Get(d, key, default) == IF key \in DOMAIN d THEN d[key] ELSE default

\* The value None (JSON null) of a text field and of a field of lines: no
\* text, since the elements of a text are single characters.
NoneText == <<"None">>
NoneLines == <<NoneText>>

\* An empty dict.
EmptyIndex == [w \in {} |-> {}]

\* index[word].add(i), creating the entry when the word is new
\* (title_index by the explicit test, the other three as defaultdict(set)).
AddToIndex(index, word, i) ==
  [w \in DOMAIN index \cup {word} |->
     IF w = word THEN Get(index, word, {}) \cup {i} ELSE index[w]]

(***************************************************************************)
(* build_search_indices                                                    *)
(***************************************************************************)
\* The four indices as one record, while they are being built.
EmptyIndices == [title |-> EmptyIndex, ingredient |-> EmptyIndex,
                 instruction |-> EmptyIndex, keyword |-> EmptyIndex]

\* for word in title_words: self.title_index[word].add(i)
RECURSIVE IndexTitleWords(_, _, _)
IndexTitleWords(ix, words, i) ==
  IF words = << >> THEN ix
  ELSE IndexTitleWords([ix EXCEPT !.title = AddToIndex(@, Head(words), i)],
                       Tail(words), i)

\* IndexFieldWords at fault: the words are not added to keyword_index.
RECURSIVE IndexFieldWordsNoKeyword(_, _, _, _)
IndexFieldWordsNoKeyword(ix, field, words, i) ==
  IF words = << >> THEN ix
  ELSE IndexFieldWordsNoKeyword(
         [ix EXCEPT ![field] = AddToIndex(@, Head(words), i)],
         field, Tail(words), i)

\* for word in words: self.<field>_index[word].add(i);
\*                    self.keyword_index[word].add(i)
RECURSIVE IndexFieldWords(_, _, _, _)
IndexFieldWords(ix, field, words, i) ==
  IF words = << >> THEN ix
  ELSE IndexFieldWords(
         [ix EXCEPT ![field] = AddToIndex(@, Head(words), i),
                    !.keyword = AddToIndex(@, Head(words), i)],
         field, Tail(words), i)

\* for line in lines: index the words of the line under field and keyword
RECURSIVE IndexLines(_, _, _, _)
IndexLines(ix, field, lines, i) ==
  IF lines = << >> THEN ix
  ELSE IndexLines(IndexFieldWords(ix, field, Words(Head(lines)), i),
                  field, Tail(lines), i)

\* for word in field_words: self.keyword_index[word].add(i)
RECURSIVE IndexKeywordWords(_, _, _)
IndexKeywordWords(ix, words, i) ==
  IF words = << >> THEN ix
  ELSE IndexKeywordWords([ix EXCEPT !.keyword = AddToIndex(@, Head(words), i)],
                         Tail(words), i)

OtherFields == <<"description", "category", "cuisine", "author">>

\* IndexOtherFields at fault: of the other fields only the description is
\* indexed.
IndexOtherFieldsDescriptionOnly(ix, fields, recipe, i) ==
  LET field_text == Get(recipe, "description", << >>)
  IN  IF field_text # << >> /\ field_text # NoneText
        THEN IndexKeywordWords(ix, Words(field_text), i)
        ELSE ix

\* for field in ['description', 'category', 'cuisine', 'author']: ...
RECURSIVE IndexOtherFields(_, _, _, _)
IndexOtherFields(ix, fields, recipe, i) ==
  IF fields = << >> THEN ix
  ELSE LET field_text == Get(recipe, Head(fields), << >>)
       IN  IndexOtherFields(
             IF field_text # << >> /\ field_text # NoneText
               THEN IndexKeywordWords(ix, Words(field_text), i)
               ELSE ix,
             Tail(fields), recipe, i)

\* IndexIngredients at fault: only the first ingredient line is indexed.
IndexIngredientsFirstLine(ix, recipe, i) ==
  LET ingredients == Get(recipe, "ingredients", << >>)
  IN  IndexLines(ix, "ingredient",
                 IF ingredients = << >> THEN << >> ELSE <<Head(ingredients)>>, i)

\* The ingredient lines of one recipe.
IndexIngredients(ix, recipe, i) ==
  IndexLines(ix, "ingredient", Get(recipe, "ingredients", << >>), i)

\* The instruction lines of one recipe.
IndexInstructions(ix, recipe, i) ==
  IndexLines(ix, "instruction", Get(recipe, "instructions", << >>), i)

\* How a build ends: the indices as written so far, and whether an
\* exception ended it.
Done(ix) == [ix |-> ix, raised |-> FALSE]
Raised(ix) == [ix |-> ix, raised |-> TRUE]

\* The body of the loop over enumerate(self.recipes).  A title that is None
\* raises at None.lower() (AttributeError), ingredients or instructions
\* that are None raise at the for loop over them (TypeError).
IndexRecipe(ix, recipe, i) ==
  LET title == Get(recipe, "title", << >>)
  IN  IF title = NoneText THEN Raised(ix)
      ELSE LET a == IndexTitleWords(ix, Words(title), i)
           IN  IF Get(recipe, "ingredients", << >>) = NoneLines THEN Raised(a)
               ELSE LET b == IndexIngredients(a, recipe, i)
                    IN  IF Get(recipe, "instructions", << >>) = NoneLines
                          THEN Raised(b)
                          ELSE Done(IndexOtherFields(
                                      IndexInstructions(b, recipe, i),
                                      OtherFields, recipe, i))

\* BuildFrom at fault: enumerate(self.recipes, 1), ids counting from 1.
RECURSIVE BuildFromOne(_, _, _)
BuildFromOne(ix, rs, i) ==
  IF i >= Len(rs) THEN Done(ix)
  ELSE LET r == IndexRecipe(ix, rs[i + 1], i + 1)
       IN  IF r.raised THEN r ELSE BuildFromOne(r.ix, rs, i + 1)

\* The loop of build_search_indices from recipe i on (ids count from 0).
RECURSIVE BuildFrom(_, _, _)
BuildFrom(ix, rs, i) ==
  IF i >= Len(rs) THEN Done(ix)
  ELSE LET r == IndexRecipe(ix, rs[i + 1], i)
       IN  IF r.raised THEN r ELSE BuildFrom(r.ix, rs, i + 1)

\* build_search_indices over the list of records rs.
BuildSearchIndices(rs) == BuildFrom(EmptyIndices, rs, 0)

(***************************************************************************)
(* load_recipes and the constructor                                        *)
(***************************************************************************)
\* A JSON source.  kind: "missing" (no such file), "invalid" (not JSON) or
\* "json"; top: whether the top-level value is an "object" or "other";
\* key: whether the object has the key 'recipes'; type: the type of its
\* value: "null", "number", a non-empty "string", a non-empty "object", a
\* non-empty list of "scalars", or a "list" of objects, which are items.
Source(kind, top, key, type, items) ==
  [kind |-> kind, top |-> top, key |-> key, type |-> type, items |-> items]

\* A source with the list of records rs under 'recipes'.
RecipeFile(rs) == Source("json", "object", TRUE, "list", rs)

\* The value of self.recipes after load_recipes: the 'recipes' value, or
\* the empty list when the file is missing (FileNotFoundError), is not
\* JSON, has no object on top (no .get) or no key 'recipes' (the default),
\* or when len() of the value raises (null, number): except Exception.
load_recipes(source) ==
  IF \/ source.kind # "json"
     \/ source.top # "object"
     \/ ~source.key
     \/ source.type \in {"null", "number"}
    THEN [type |-> "list", items |-> << >>]
    ELSE [type |-> source.type, items |-> source.items]

\* build_search_indices over the loaded value: the first element of a
\* string, of an object (its first key) or of a list of scalars has no
\* .get, which raises AttributeError before anything is indexed.
build_search_indices(loaded) ==
  IF loaded.type = "list" THEN BuildSearchIndices(loaded.items)
  ELSE Raised(EmptyIndices)

(***************************************************************************)
(* The query operations.  Each operator below reads the engine's state and *)
(* yields what the method returns: the recipe ids in the order of the      *)
(* returned list (the list itself is [self.recipes[i] for i in ...]).      *)
(***************************************************************************)
\* Iterating a set of recipe ids: Python fixes no order for a set, and an
\* unchanged engine iterates equal sets alike; set_order is that order.
IterSet(S) == SelectSeq(set_order, LAMBDA i : i \in S)

\* matching_indices before the first word of a query.
None == [none |-> TRUE, ids |-> {}]

\* Narrow at fault: the id sets of the words joined, not intersected.
NarrowUnion(matching_indices, word_indices) ==
  IF matching_indices.none
    THEN [none |-> FALSE, ids |-> word_indices]
    ELSE [none |-> FALSE, ids |-> matching_indices.ids \cup word_indices]

\* Narrow at fault: "if not matching_indices" in place of "is None", which
\* starts over from the next word once the candidate set is empty.
NarrowFalsy(matching_indices, word_indices) ==
  IF matching_indices.none \/ matching_indices.ids = {}
    THEN [none |-> FALSE, ids |-> word_indices]
    ELSE [none |-> FALSE, ids |-> matching_indices.ids \cap word_indices]

\* if matching_indices is None: matching_indices = word_indices.copy()
\* else: matching_indices &= word_indices
Narrow(matching_indices, word_indices) ==
  IF matching_indices.none
    THEN [none |-> FALSE, ids |-> word_indices]
    ELSE [none |-> FALSE, ids |-> matching_indices.ids \cap word_indices]

\* The loop "for word in query_words" over the id sets found for the words.
RECURSIVE NarrowAll(_, _)
NarrowAll(matching_indices, sets) ==
  IF sets = << >> THEN matching_indices
  ELSE NarrowAll(Narrow(matching_indices, Head(sets)), Tail(sets))

\* return [] when no word was seen, else the list over matching_indices.
ResultOf(matching_indices) ==
  IF matching_indices.none THEN << >> ELSE IterSet(matching_indices.ids)

\* self.title_index.get(word, set()) for each word of the query.
TitleSets(query_words) ==
  [k \in DOMAIN query_words |-> Get(title_index, query_words[k], {})]

\* search_by_title
search_by_title(query) ==
  LET query_words == Words(query)
  IN  IF query_words = << >> THEN << >>
      ELSE ResultOf(NarrowAll(None, TitleSets(query_words)))

\* self.ingredient_index.get(word, set()) for each word of the query.
IngredientSets(ingredient_words) ==
  [k \in DOMAIN ingredient_words |->
     Get(ingredient_index, ingredient_words[k], {})]

\* search_by_ingredient
search_by_ingredient(ingredient) ==
  LET ingredient_words == Words(ingredient)
  IN  IF ingredient_words = << >> THEN << >>
      ELSE ResultOf(NarrowAll(None, IngredientSets(ingredient_words)))

\* MethodSets at fault: the title is not consulted.
MethodSetsInstructionOnly(method_words) ==
  [k \in DOMAIN method_words |-> Get(instruction_index, method_words[k], {})]

\* word_indices = title_indices | instruction_indices for each word.
MethodSets(method_words) ==
  [k \in DOMAIN method_words |->
     Get(title_index, method_words[k], {})
       \cup Get(instruction_index, method_words[k], {})]

\* search_by_cooking_method
search_by_cooking_method(method) ==
  LET method_words == Words(method)
  IN  IF method_words = << >> THEN << >>
      ELSE ResultOf(NarrowAll(None, MethodSets(method_words)))

\* Whether recipe idx has an entry in recipe_scores (a dict in insertion
\* order, here a sequence of [idx, score]).
HasScore(recipe_scores, idx) ==
  \E k \in DOMAIN recipe_scores : recipe_scores[k].idx = idx

\* recipe_scores[idx] += 1 on a defaultdict(int): a new entry goes last.
BumpScore(recipe_scores, idx) ==
  IF HasScore(recipe_scores, idx)
    THEN [k \in DOMAIN recipe_scores |->
            IF recipe_scores[k].idx = idx
              THEN [idx |-> idx, score |-> recipe_scores[k].score + 1]
              ELSE recipe_scores[k]]
    ELSE Append(recipe_scores, [idx |-> idx, score |-> 1])

\* for idx in matching_indices: recipe_scores[idx] += 1
RECURSIVE BumpAll(_, _)
BumpAll(recipe_scores, idxs) ==
  IF idxs = << >> THEN recipe_scores
  ELSE BumpAll(BumpScore(recipe_scores, Head(idxs)), Tail(idxs))

\* s is t or a beginning of t.
IsPrefix(s, t) == Len(s) <= Len(t) /\ SubSeq(t, 1, Len(s)) = s

\* ScoreWords at fault: a query word also matches the indexed words it
\* begins.
RECURSIVE ScoreWordsPrefix(_, _)
ScoreWordsPrefix(recipe_scores, query_words) ==
  IF query_words = << >> THEN recipe_scores
  ELSE ScoreWordsPrefix(
         BumpAll(recipe_scores,
                 IterSet(UNION {keyword_index[w] :
                                  w \in {v \in DOMAIN keyword_index :
                                           IsPrefix(Head(query_words), v)}})),
         Tail(query_words))

\* for word in query_words: bump every recipe of keyword_index.get(word, set())
RECURSIVE ScoreWords(_, _)
ScoreWords(recipe_scores, query_words) ==
  IF query_words = << >> THEN recipe_scores
  ELSE ScoreWords(
         BumpAll(recipe_scores,
                 IterSet(Get(keyword_index, Head(query_words), {}))),
         Tail(query_words))

\* recipe_scores after the scoring loop of search_general.
RecipeScores(query) == ScoreWords(<< >>, Words(query))

\* One step of a stable descending sort: x goes behind every entry whose
\* score is at least its own.
RECURSIVE InsertByScore(_, _)
InsertByScore(sorted, x) ==
  IF sorted = << >> THEN <<x>>
  ELSE IF Head(sorted).score >= x.score
         THEN <<Head(sorted)>> \o InsertByScore(Tail(sorted), x)
         ELSE <<x>> \o sorted

\* The sort from entry k of the list on.
RECURSIVE SortFrom(_, _, _)
SortFrom(sorted, list, k) ==
  IF k > Len(list) THEN sorted
  ELSE SortFrom(InsertByScore(sorted, list[k]), list, k + 1)

\* One step of a stable ascending sort.
RECURSIVE InsertAscending(_, _)
InsertAscending(sorted, x) ==
  IF sorted = << >> THEN <<x>>
  ELSE IF Head(sorted).score <= x.score
         THEN <<Head(sorted)>> \o InsertAscending(Tail(sorted), x)
         ELSE <<x>> \o sorted

RECURSIVE SortAscendingFrom(_, _, _)
SortAscendingFrom(sorted, list, k) ==
  IF k > Len(list) THEN sorted
  ELSE SortAscendingFrom(InsertAscending(sorted, list[k]), list, k + 1)

\* SortByScore at fault: sorted ascending and then reversed, which turns
\* the records of equal score around.
SortByScoreReversing(matching_recipes) ==
  LET up == SortAscendingFrom(<< >>, matching_recipes, 1)
  IN  [k \in DOMAIN up |-> up[Len(up) + 1 - k]]

\* matching_recipes.sort(key=lambda x: x['search_score'], reverse=True):
\* list.sort is stable, also with reverse=True.
SortByScore(matching_recipes) == SortFrom(<< >>, matching_recipes, 1)

\* search_general at fault: only the recipes holding every query word.
search_general_every_word(query) ==
  LET query_words == Words(query)
      recipe_scores == RecipeScores(query)
  IN  IF query_words = << >> THEN << >>
      ELSE SortByScore(SelectSeq(recipe_scores,
                                 LAMBDA r : r.score = Len(query_words)))

\* search_general: the list of [idx, score], one per returned record.
search_general(query) ==
  IF Words(query) = << >> THEN << >>
  ELSE SortByScore(RecipeScores(query))

\* recipe = self.recipes[idx].copy(); recipe['search_score'] = score
ScoredCopy(idx, score) ==
  LET recipe == recipes[idx + 1]
  IN  [f \in DOMAIN recipe \cup {"search_score"} |->
         IF f = "search_score" THEN score ELSE recipe[f]]

\* The table dietary_keywords.
dietary_keywords ==
  [dietary_type \in
     { <<"v","e","g","e","t","a","r","i","a","n">>,
       <<"s","e","a","f","o","o","d">>,
       <<"d","e","s","s","e","r","t">>,
       <<"s","a","u","c","e">>,
       <<"s","o","u","p">>,
       <<"a","p","p","e","t","i","z","e","r">> } |->
   CASE dietary_type = <<"v","e","g","e","t","a","r","i","a","n">> ->
          << <<"v","e","g","e","t","a","r","i","a","n">>,
             <<"v","e","g","g","i","e">>,
             <<"v","e","g","e","t","a","b","l","e","s">> >>
     [] dietary_type = <<"s","e","a","f","o","o","d">> ->
          << <<"s","a","l","m","o","n">>,
             <<"c","r","a","b">>,
             <<"h","a","l","i","b","u","t">>,
             <<"c","l","a","m">>,
             <<"f","i","s","h">>,
             <<"s","e","a","f","o","o","d">> >>
     [] dietary_type = <<"d","e","s","s","e","r","t">> ->
          << <<"p","i","e">>,
             <<"c","a","k","e">>,
             <<"d","e","s","s","e","r","t">>,
             <<"s","w","e","e","t">>,
             <<"c","o","b","b","l","e","r">>,
             <<"c","r","e","a","m">> >>
     [] dietary_type = <<"s","a","u","c","e">> ->
          << <<"s","a","u","c","e">>,
             <<"d","r","e","s","s","i","n","g">>,
             <<"v","i","n","a","i","g","r","e","t","t","e">> >>
     [] dietary_type = <<"s","o","u","p">> ->
          << <<"s","o","u","p">>,
             <<"c","h","o","w","d","e","r">>,
             <<"b","r","o","t","h">> >>
     [] dietary_type = <<"a","p","p","e","t","i","z","e","r">> ->
          << <<"a","p","p","e","t","i","z","e","r">>,
             <<"d","i","p">>,
             <<"s","p","r","e","a","d">> >>]

\* Whether the returned dict recipe is already in matching_recipes
\* ("recipe not in matching_recipes" compares dicts by their contents).
InList(matching_recipes, recipe) ==
  \E k \in DOMAIN matching_recipes : matching_recipes[k].recipe = recipe

\* for recipe in results: if recipe not in matching_recipes: append
RECURSIVE AppendNew(_, _)
AppendNew(matching_recipes, results) ==
  IF results = << >> THEN matching_recipes
  ELSE LET r == Head(results)
           recipe == ScoredCopy(r.idx, r.score)
       IN  AppendNew(
             IF InList(matching_recipes, recipe) THEN matching_recipes
             ELSE Append(matching_recipes,
                         [idx |-> r.idx, score |-> r.score, recipe |-> recipe]),
             Tail(results))

\* CollectKeywords at fault: the keywords are searched from the last to
\* the first.
RECURSIVE CollectKeywordsBackwards(_, _)
CollectKeywordsBackwards(matching_recipes, keywords) ==
  IF keywords = << >> THEN matching_recipes
  ELSE CollectKeywordsBackwards(
         AppendNew(matching_recipes,
                   search_general(keywords[Len(keywords)])),
         SubSeq(keywords, 1, Len(keywords) - 1))

\* CollectKeywords at fault: only the first keyword is searched.
CollectKeywordsFirstOnly(matching_recipes, keywords) ==
  IF keywords = << >> THEN matching_recipes
  ELSE AppendNew(matching_recipes, search_general(Head(keywords)))

\* for keyword in keywords: results = self.search_general(keyword); ...
RECURSIVE CollectKeywords(_, _)
CollectKeywords(matching_recipes, keywords) ==
  IF keywords = << >> THEN matching_recipes
  ELSE CollectKeywords(AppendNew(matching_recipes, search_general(Head(keywords))),
                       Tail(keywords))

\* search_by_dietary_needs: the list of [idx, score, recipe].
search_by_dietary_needs(dietary_type) ==
  CollectKeywords(<< >>,
                  Get(dietary_keywords, Lower(dietary_type), <<dietary_type>>))

(***************************************************************************)
(* The inputs: the records a store is loaded with and the query strings.   *)
(***************************************************************************)
\* title: "Crab Pie", ingredients: ["1 crab", "Pie!"], instructions: ["Bake"]
R_CrabPie ==
  [title |-> <<"C","r","a","b"," ","P","i","e">>,
   ingredients |-> <<<<"1"," ","c","r","a","b">>, <<"P","i","e","!">>>>,
   instructions |-> <<<<"B","a","k","e">>>>]

\* title: "Fish", ingredients: ["fish, pie"], instructions: ["bake crab"], description: "Pie"
R_FishBake ==
  [title |-> <<"F","i","s","h">>,
   ingredients |-> <<<<"f","i","s","h",","," ","p","i","e">>>>,
   instructions |-> <<<<"b","a","k","e"," ","c","r","a","b">>>>,
   description |-> <<"P","i","e">>]

\* title: "Kloß _ pie", ingredients: ["crab_pie"], category: "FISH"
R_Kloss ==
  [title |-> <<"K","l","o","ß"," ","_"," ","p","i","e">>,
   ingredients |-> <<<<"c","r","a","b","_","p","i","e">>>>,
   category |-> <<"F","I","S","H">>]

\* title: "bake", description: "crab pie fish"
R_Note ==
  [title |-> <<"b","a","k","e">>,
   description |-> <<"c","r","a","b"," ","p","i","e"," ","f","i","s","h">>]

SampleRecipes == {R_CrabPie, R_FishBake, R_Kloss, R_Note}

\* The two records of the end-to-end scenario.
\* title: "Grilled King Salmon", ingredients: ["2 lb salmon",
\* "1 cup white wine"], instructions: ["Grill salmon 10 minutes"]
R_GrilledKingSalmon ==
  [title |-> <<"G","r","i","l","l","e","d"," ","K","i","n","g"," ","S","a","l","m","o","n">>,
   ingredients |-> <<<<"2"," ","l","b"," ","s","a","l","m","o","n">>,
                     <<"1"," ","c","u","p"," ","w","h","i","t","e"," ","w","i","n","e">>>>,
   instructions |-> <<<<"G","r","i","l","l"," ","s","a","l","m","o","n"," ","1","0"," ","m","i","n","u","t","e","s">>>>]

\* title: "Blackberry Cobbler", ingredients: ["2 cups blackberries",
\* "1 cup flour"], instructions: ["Bake cobbler 45 minutes"]
R_BlackberryCobbler ==
  [title |-> <<"B","l","a","c","k","b","e","r","r","y"," ","C","o","b","b","l","e","r">>,
   ingredients |-> <<<<"2"," ","c","u","p","s"," ","b","l","a","c","k","b","e","r","r","i","e","s">>,
                     <<"1"," ","c","u","p"," ","f","l","o","u","r">>>>,
   instructions |-> <<<<"B","a","k","e"," ","c","o","b","b","l","e","r"," ","4","5"," ","m","i","n","u","t","e","s">>>>]

ScenarioRecipes == {R_GrilledKingSalmon, R_BlackberryCobbler}

\* Records with fields absent or None: {} and R_CrabPie with one field
\* set to None.
R_Bare == [f \in {} |-> << >>]
R_NoneTitle == [R_CrabPie EXCEPT !.title = NoneText]
R_NoneIngredients == [R_CrabPie EXCEPT !.ingredients = NoneLines]
R_NoneInstructions == [R_CrabPie EXCEPT !.instructions = NoneLines]
\* title: "Fish", description: None, category: None, cuisine: "crab",
\* author: None
R_NoneOthers ==
  [title |-> <<"F","i","s","h">>, description |-> NoneText,
   category |-> NoneText, cuisine |-> <<"c","r","a","b">>,
   author |-> NoneText]

LoadedRecipes == {R_CrabPie, R_Bare, R_NoneTitle, R_NoneIngredients,
                  R_NoneInstructions, R_NoneOthers}

\* The sources that are absent or malformed.
MalformedSources ==
  {Source("missing", "other", FALSE, "null", << >>),
   Source("invalid", "other", FALSE, "null", << >>),
   Source("json", "other", FALSE, "null", << >>)}
  \cup {Source("json", "object", TRUE, type, << >>) :
          type \in {"null", "number", "string", "object", "scalars"}}

Q_Empty == << >>   \* ""
Q_Punct == <<"!","?">>   \* "!?"
Q_Underscore == <<"_">>   \* "_"
Q_Crab == <<"c","r","a","b">>   \* "crab"
Q_Pie == <<"p","i","e">>   \* "pie"
Q_CrabPie == <<"C","r","a","b"," ","P","i","e">>   \* "Crab Pie"
Q_PieFish == <<"p","i","e"," ","f","i","s","h">>   \* "pie fish"
Q_PiePie == <<"p","i","e"," ","p","i","e">>   \* "pie pie"
Q_AbsentFirst == <<"z","z"," ","c","r","a","b">>   \* "zz crab"
Q_AbsentLast == <<"c","r","a","b"," ","z","z">>   \* "crab zz"
Q_AbsentMiddle == <<"p","i","e"," ","z","z"," ","f","i","s","h">>   \* "pie zz fish"
Q_Kloss == <<"K","l","o","ß">>   \* "Kloß"
Q_FishCrab == <<"f","i","s","h"," ","c","r","a","b">>   \* "fish crab"
Q_Seafood == <<"s","e","a","f","o","o","d">>   \* "seafood"
Q_Dessert == <<"D","e","s","s","e","r","t">>   \* "Dessert"
Q_Cra == <<"c","r","a">>   \* "cra"
Q_Baked == <<"b","a","k","e","d">>   \* "baked"

Queries == {Q_Empty, Q_Punct, Q_Underscore, Q_Crab, Q_Pie, Q_CrabPie, Q_PieFish, Q_PiePie, Q_AbsentFirst, Q_AbsentLast, Q_AbsentMiddle, Q_Kloss, Q_FishCrab, Q_Seafood, Q_Dessert,
            Q_Cra, Q_Baked}

\* The queries of the end-to-end scenario.
Q_Salmon == <<"s","a","l","m","o","n">>   \* "salmon"
Q_Grilled == <<"g","r","i","l","l","e","d">>   \* "grilled"
Q_SalmonWine == <<"s","a","l","m","o","n"," ","w","i","n","e">>   \* "salmon wine"
Q_DessertLower == <<"d","e","s","s","e","r","t">>   \* "dessert"

ScenarioQueries == {Q_Salmon, Q_Grilled, Q_Baked, Q_SalmonWine, Q_DessertLower}

\* The queries put to an engine after a load of any source.
LoadQueries == {Q_Empty, Q_Crab, Q_Seafood}

\* The queries put to an engine whose store is loaded anew or whose
\* indices are rebuilt.
ApiQueries == {Q_Crab, Q_PieFish}

\* The queries of callers that repeat a call and compare the results.
RepeatQueries == {Q_Pie, Q_PieFish, Q_Seafood}

\* The sequences over S of length at most n.
SeqsUpTo(S, n) == UNION {[1..m -> S] : m \in 0..n}

\* The orders in which the ids 0..n-1 may iterate.
Orders(n) ==
  {p \in [1..n -> 0..(n - 1)] : \A j, k \in 1..n : j # k => p[j] # p[k]}

\* The sources: the malformed ones, an object without 'recipes', and the
\* lists of records.
Sources ==
  MalformedSources
  \cup {Source("json", "object", FALSE, "null", << >>)}
  \cup {RecipeFile(rs) : rs \in SeqsUpTo(LoadedRecipes, MaxRecipes)}

(***************************************************************************)
(* The state machine: construction, then any sequence of queries, each     *)
(* call returning a list its caller looks at and drops.                    *)
(***************************************************************************)
NoCall ==
  [op |-> "none", q |-> << >>, ids |-> << >>, scores |-> << >>,
   raised |-> FALSE]

\* What a call returns: the operation, its argument, the ids of the
\* returned records in list order and their search_score (general and
\* dietary search only).
Called(op, q, ids, scores) ==
  [op |-> op, q |-> q, ids |-> ids, scores |-> scores, raised |-> FALSE]

\* A call that raised IndexError at self.recipes[i].
Raising(op, q) ==
  [op |-> op, q |-> q, ids |-> << >>, scores |-> << >>, raised |-> TRUE]

\* self.recipes[i] for the ids of a result: some id is no position of the
\* store.
OutOfRange(ids) == \E k \in DOMAIN ids : ids[k] >= Len(recipes)

\* The outcome of a call that takes the records of ids from the store.
Returning(op, q, ids, scores) ==
  IF OutOfRange(ids) THEN Raising(op, q) ELSE Called(op, q, ids, scores)

Idxs(list) == [k \in DOMAIN list |-> list[k].idx]
Scores(list) == [k \in DOMAIN list |-> list[k].score]

\* A RecipeCrawler just constructed, no scrape_multiple_recipes called.
\* A URL: its host, what its path looks like ("recipe" for a path
\* _is_recipe_url accepts, "content" for another one _is_content_page
\* accepts, "asset" for one it rejects, such as a .pdf), and a number
\* that tells the paths of one kind apart.
Url(host, kind, n) == [host |-> host, kind |-> kind, n |-> n]

\* The base URL of the crawls.
BaseUrl == Url("a", "content", 1)

\* No crawl_from_base is running.
NoCrawl ==
  /\ site = "none"
  /\ base_url = BaseUrl
  /\ limit = 0
  /\ discovered_urls = {}
  /\ visited_urls = {}
  /\ urls_to_visit = << >>
  /\ fetches = << >>
  /\ crawl_pc = "idle"
  /\ result_urls = {}

\* get_page_content(url, max_retries: int = 3)
DefaultRetries == 3

\* No call of the PacificNorthwestScraper runs.
NoScrapeCall == [caller |-> "none", url |-> ""]

NoScraper ==
  /\ scraper_failed_urls = << >>
  /\ scrape_call = NoScrapeCall
  /\ scraped = << >>
  /\ max_retries = DefaultRetries
  /\ attempt = 0
  /\ gets = << >>
  /\ sleeps = << >>
  /\ soup = "unset"
  /\ scraper_pc = "idle"

NoCrawler ==
  /\ NoCrawl
  /\ NoScraper
  /\ attempted_urls = << >>
  /\ successful_urls = << >>
  /\ failed_urls = << >>
  /\ skipped_urls = << >>
  /\ urls = << >>
  /\ scrape_results = << >>
  /\ answers = << >>

\* No build_search_indices is running; one is running and comes to id i.
NotBuilding == [running |-> FALSE, i |-> 0]
Building(i) == [running |-> TRUE, i |-> i]

\* RecipeSearcher(json_file): load_recipes, then build_search_indices.
Construct(source) ==
  LET loaded == load_recipes(source)
      built == build_search_indices(loaded)
  IN  /\ json_file = source
      /\ recipes = loaded.items
      /\ title_index = built.ix.title
      /\ ingredient_index = built.ix.ingredient
      /\ instruction_index = built.ix.instruction
      /\ keyword_index = built.ix.keyword
      /\ status = IF built.raised THEN "raised" ELSE "ready"
      /\ set_order \in Orders(Len(recipes))
      /\ build_pc = NotBuilding
      /\ last = NoCall
      /\ memo = [call |-> NoCall, others |-> FALSE]

\* An engine constructed from a file of sample records.
Init ==
  /\ \E rs \in SeqsUpTo(SampleRecipes, MaxRecipes) : Construct(RecipeFile(rs))
  /\ NoCrawler

\* An engine constructed from any of the sources.
InitLoad ==
  /\ \E source \in Sources : Construct(source)
  /\ NoCrawler

\* A caller that kept a call sees that another call was made since.
Noted(op, q) ==
  IF memo.call.op # "none" /\ (memo.call.op # op \/ memo.call.q # q)
    THEN [memo EXCEPT !.others = TRUE]
    ELSE memo

\* SearchByTitle at fault: matching_indices = word_indices without copy(),
\* so that "&=" narrows the set stored in title_index under the first word.
SearchByTitleInPlace(query) ==
  LET query_words == Words(query)
  IN  /\ last.op = "none"
      /\ last' = Called("title", query, search_by_title(query), << >>)
      /\ memo' = Noted("title", query)
      /\ title_index' =
           IF query_words # << >> /\ query_words[1] \in DOMAIN title_index
             THEN [title_index EXCEPT ![query_words[1]] =
                     NarrowAll(None, TitleSets(query_words)).ids]
             ELSE title_index
      /\ UNCHANGED <<json_file, status, recipes, ingredient_index,
                     instruction_index, keyword_index, set_order, build_pc>>

SearchByTitle(query) ==
  /\ last.op = "none"
  /\ last' = Returning("title", query, search_by_title(query), << >>)
  /\ memo' = Noted("title", query)
  /\ UNCHANGED engine

\* SearchByIngredient at fault: the lookup ingredient_index[word] on the
\* defaultdict, which adds an empty entry for every query word without one.
SearchByIngredientInserting(ingredient) ==
  /\ last.op = "none"
  /\ last' = Called("ingredient", ingredient,
                    search_by_ingredient(ingredient), << >>)
  /\ memo' = Noted("ingredient", ingredient)
  /\ ingredient_index' =
       [w \in DOMAIN ingredient_index \cup Range(Words(ingredient)) |->
          Get(ingredient_index, w, {})]
  /\ UNCHANGED <<json_file, status, recipes, title_index, instruction_index,
                 keyword_index, set_order, build_pc>>

SearchByIngredient(ingredient) ==
  /\ last.op = "none"
  /\ last' = Returning("ingredient", ingredient,
                       search_by_ingredient(ingredient), << >>)
  /\ memo' = Noted("ingredient", ingredient)
  /\ UNCHANGED engine

SearchByCookingMethod(method) ==
  /\ last.op = "none"
  /\ last' = Returning("method", method, search_by_cooking_method(method),
                       << >>)
  /\ memo' = Noted("method", method)
  /\ UNCHANGED engine

\* SearchGeneral at fault: the lookup keyword_index[word] on the
\* defaultdict, which adds an entry for every query word that has none.
SearchGeneralInserting(query) ==
  /\ last.op = "none"
  /\ LET matching_recipes == search_general(query)
     IN  last' = Called("general", query, Idxs(matching_recipes),
                        Scores(matching_recipes))
  /\ memo' = Noted("general", query)
  /\ keyword_index' =
       [w \in DOMAIN keyword_index \cup Range(Words(query)) |->
          Get(keyword_index, w, {})]
  /\ UNCHANGED <<json_file, status, recipes, title_index, ingredient_index,
                 instruction_index, set_order, build_pc>>

SearchGeneral(query) ==
  /\ last.op = "none"
  /\ LET matching_recipes == search_general(query)
     IN  last' = Returning("general", query, Idxs(matching_recipes),
                           Scores(matching_recipes))
  /\ memo' = Noted("general", query)
  /\ UNCHANGED engine

\* The first search_general of a dietary search to take a record from
\* outside the store raises.
SearchByDietaryNeeds(dietary_type) ==
  /\ last.op = "none"
  /\ LET keywords ==
           Get(dietary_keywords, Lower(dietary_type), <<dietary_type>>)
     IN  IF \E k \in DOMAIN keywords :
               OutOfRange(Idxs(search_general(keywords[k])))
           THEN last' = Raising("dietary", dietary_type)
           ELSE LET matching_recipes == search_by_dietary_needs(dietary_type)
                IN  last' = Called("dietary", dietary_type,
                                   Idxs(matching_recipes),
                                   Scores(matching_recipes))
  /\ memo' = Noted("dietary", dietary_type)
  /\ UNCHANGED engine

\* The caller is done with the returned list.
Discard ==
  /\ last.op # "none"
  /\ last' = NoCall
  /\ UNCHANGED <<engine, memo>>

\* The caller keeps the returned list to compare a later call with
\* (results1 in test_search_consistency).
Keep ==
  /\ last.op # "none"
  /\ memo.call.op = "none"
  /\ memo' = [call |-> last, others |-> FALSE]
  /\ last' = NoCall
  /\ UNCHANGED engine

\* A call of one of the five query operations.
Search(q) ==
  \/ SearchByTitle(q)
  \/ SearchByIngredient(q)
  \/ SearchByCookingMethod(q)
  \/ SearchGeneral(q)
  \/ SearchByDietaryNeeds(q)

Next ==
  /\ UNCHANGED crawler
  /\ \/ \E q \in Queries : Search(q)
     \/ Discard

Spec == Init /\ [][Next]_vars

\* Callers that repeat a call, among other calls, and compare.
NextRepeat ==
  /\ UNCHANGED crawler
  /\ \/ \E q \in RepeatQueries : Search(q)
     \/ Discard
     \/ Keep

SpecRepeat == Init /\ [][NextRepeat]_vars

\* The end-to-end scenario: a store of the scenario's records and the
\* scenario's queries.
InitScenario ==
  /\ \E rs \in SeqsUpTo(ScenarioRecipes, MaxRecipes) :
       Construct(RecipeFile(rs))
  /\ NoCrawler
NextScenario ==
  /\ UNCHANGED crawler
  /\ \/ \E q \in ScenarioQueries : Search(q)
     \/ Discard
SpecScenario == InitScenario /\ [][NextScenario]_vars

\* load_recipes(json_file) on the constructed engine: the store is
\* replaced, the indices are left as they are.
LoadRecipes(source) ==
  /\ last.op = "none"
  /\ build_pc = NotBuilding
  /\ load_recipes(source).type = "list"
  /\ json_file' = source
  /\ recipes' = load_recipes(source).items
  /\ UNCHANGED <<status, title_index, ingredient_index, instruction_index,
                 keyword_index, set_order, build_pc, last, memo>>

\* build_search_indices() on the constructed engine, from its first to
\* its last line; the new sets iterate in an order of their own.
Rebuild ==
  /\ last.op = "none"
  /\ build_pc = NotBuilding
  /\ LET built == BuildSearchIndices(recipes)
     IN  /\ ~built.raised
         /\ title_index' = built.ix.title
         /\ ingredient_index' = built.ix.ingredient
         /\ instruction_index' = built.ix.instruction
         /\ keyword_index' = built.ix.keyword
  /\ set_order' \in Orders(Len(recipes))
  /\ UNCHANGED <<json_file, status, recipes, build_pc, last, memo>>

\* The sources load_recipes is called with on a constructed engine.
ApiSources ==
  {Source("missing", "other", FALSE, "null", << >>)}
    \cup {RecipeFile(rs) : rs \in SeqsUpTo(SampleRecipes, MaxRecipes)}

\* The public methods in any order, one call after the other.
NextApi ==
  /\ UNCHANGED crawler
  /\ \/ \E q \in ApiQueries : Search(q)
     \/ Discard
     \/ \E source \in ApiSources : LoadRecipes(source)
     \/ Rebuild
SpecApi == Init /\ [][NextApi]_vars

\* build_search_indices() running in one thread, line by line, while
\* other threads call the query operations.
\* self.title_index = {} ... self.keyword_index = defaultdict(set)
StartBuild ==
  /\ build_pc = NotBuilding
  /\ build_pc' = Building(0)
  /\ title_index' = EmptyIndices.title
  /\ ingredient_index' = EmptyIndices.ingredient
  /\ instruction_index' = EmptyIndices.instruction
  /\ keyword_index' = EmptyIndices.keyword
  /\ UNCHANGED <<json_file, status, recipes, set_order, last, memo>>

\* One round of the loop over enumerate(self.recipes).
BuildStep ==
  /\ build_pc.running
  /\ build_pc.i < Len(recipes)
  /\ LET r == IndexRecipe([title |-> title_index,
                           ingredient |-> ingredient_index,
                           instruction |-> instruction_index,
                           keyword |-> keyword_index],
                          recipes[build_pc.i + 1], build_pc.i)
     IN  /\ ~r.raised
         /\ title_index' = r.ix.title
         /\ ingredient_index' = r.ix.ingredient
         /\ instruction_index' = r.ix.instruction
         /\ keyword_index' = r.ix.keyword
  /\ build_pc' = Building(build_pc.i + 1)
  /\ UNCHANGED <<json_file, status, recipes, set_order, last, memo>>

\* The loop is over; build_search_indices returns.
EndBuild ==
  /\ build_pc.running
  /\ build_pc.i = Len(recipes)
  /\ build_pc' = NotBuilding
  /\ UNCHANGED <<json_file, status, recipes, title_index, ingredient_index,
                 instruction_index, keyword_index, set_order, last, memo>>

NextRebuild ==
  /\ UNCHANGED crawler
  /\ \/ \E q \in ApiQueries : Search(q)
     \/ Discard
     \/ StartBuild
     \/ BuildStep
     \/ EndBuild
SpecRebuild == Init /\ [][NextRebuild]_vars

\* Construction from any source; queries where the constructor returned.
NextLoad ==
  /\ UNCHANGED crawler
  /\ \/ status = "ready" /\ \E q \in LoadQueries : Search(q)
     \/ Discard
SpecLoad == InitLoad /\ [][NextLoad]_vars

(***************************************************************************)
(* RecipeCrawler: the URL tracking and scrape_multiple_recipes.            *)
(*                                                                         *)
(* recipe_crawler.py does not compile as it stands: the return annotation  *)
(* of scrape_batch (line 252) has an unmatched ']'. The methods below are  *)
(* modelled as they are written.                                           *)
(***************************************************************************)
\* The largest number of recorded attempts, and of urls of one
\* scrape_multiple_recipes.
MaxAttempts == 3
MaxUrls == 2

Urls == {"https://a.example/recipe/1", "https://b.example/pie"}

\* No RecipeSearcher is in use: its variables stay those of an engine
\* constructed from a missing file.
NoSearcher == Construct(Source("missing", "other", FALSE, "null", << >>))

\* The four tracking lists as one record.
Lists ==
  [attempted |-> attempted_urls, successful |-> successful_urls,
   failed |-> failed_urls, skipped |-> skipped_urls]

\* The dict record of record_url_attempt; its timestamp and datetime,
\* which nothing reads, are left out.
AttemptRecord(url, success, error, already_exists, skipped) ==
  [url |-> url, success |-> success, error |-> error,
   already_exists |-> already_exists, skipped |-> skipped]

\* record_url_attempt at fault: "if success" in place of "elif success".
record_url_attempt_two_ifs(t, url, success, error, already_exists, skipped) ==
  LET record == AttemptRecord(url, success, error, already_exists, skipped)
      a == [t EXCEPT !.attempted = Append(@, record)]
      b == IF skipped THEN [a EXCEPT !.skipped = Append(@, record)] ELSE a
  IN  IF success THEN [b EXCEPT !.successful = Append(@, record)]
      ELSE [b EXCEPT !.failed = Append(@, record)]

\* record_url_attempt on the lists t.
record_url_attempt(t, url, success, error, already_exists, skipped) ==
  LET record == AttemptRecord(url, success, error, already_exists, skipped)
      a == [t EXCEPT !.attempted = Append(@, record)]
  IN  IF skipped THEN [a EXCEPT !.skipped = Append(@, record)]
      ELSE IF success THEN [a EXCEPT !.successful = Append(@, record)]
      ELSE [a EXCEPT !.failed = Append(@, record)]

\* get_url_statistics, the lists themselves left out.
get_url_statistics ==
  [total_attempted |-> Len(attempted_urls),
   successful |-> Len(successful_urls),
   failed |-> Len(failed_urls),
   skipped |-> Len(skipped_urls)]

\* The lists t become the crawler's lists.
SetLists(t) ==
  /\ attempted_urls' = t.attempted
  /\ successful_urls' = t.successful
  /\ failed_urls' = t.failed
  /\ skipped_urls' = t.skipped

\* A call of record_url_attempt.
RecordUrlAttempt(url, success, error, already_exists, skipped) ==
  /\ Len(attempted_urls) < MaxAttempts
  /\ SetLists(record_url_attempt(Lists, url, success, error, already_exists,
                                 skipped))
  /\ UNCHANGED <<searcher, scraping, crawl, scraper>>

\* clear_url_history
ClearUrlHistory ==
  /\ attempted_urls' = << >>
  /\ successful_urls' = << >>
  /\ failed_urls' = << >>
  /\ skipped_urls' = << >>
  /\ UNCHANGED <<searcher, scraping, crawl, scraper>>

InitTrack == NoSearcher /\ NoCrawler

NextTrack ==
  \/ \E url \in Urls, success \in BOOLEAN, skipped \in BOOLEAN,
        error \in {"None", "HTTP 500"} :
       RecordUrlAttempt(url, success, error, FALSE, skipped)
  \/ ClearUrlHistory

SpecTrack == InitTrack /\ [][NextTrack]_vars

\* What the site and the clipper do at one call of scrape_single_recipe:
\* check_jsonld is the call's argument; jsonld tells whether the page has
\* Recipe JSON-LD ("recipe"), has none or is not fetched ("none"), or has
\* JSON-LD on which has_recipe_jsonld raises ("raise"); status_code is the
\* clipper's "200" or "500", or "raise" when the POST raises; body is the
\* clipper's body.
Answer(check_jsonld, jsonld, status_code, body) ==
  [check_jsonld |-> check_jsonld, jsonld |-> jsonld,
   status_code |-> status_code, body |-> body]

\* The bodies: a JSON object (with 'name', with 'error', empty), a JSON
\* list, and a body that is no JSON.
Body(kind, dict) == [kind |-> kind, dict |-> dict]
Bodies ==
  {Body("dict", [name |-> "Crab Pie"]),
   Body("dict", [error |-> "Could not extract"]),
   Body("dict", [d \in {} |-> ""]),
   Body("list", [d \in {} |-> ""]),
   Body("not json", [d \in {} |-> ""])}

Answers ==
  {Answer(TRUE, jsonld, "200", Body("dict", [name |-> "Crab Pie"])) :
     jsonld \in {"none", "raise"}}
  \cup {Answer(check_jsonld, "recipe", "200", body) :
          check_jsonld \in BOOLEAN, body \in Bodies}
  \cup {Answer(check_jsonld, "recipe", status_code,
                 Body("not json", [d \in {} |-> ""])) :
          check_jsonld \in BOOLEAN, status_code \in {"500", "raise"}}

\* The dict scrape_single_recipe returns when it did not clip.
Failure(url, error) == [success |-> FALSE, error |-> error, url |-> url]

\* OnException at fault: the except clause returns without recording.
OnExceptionUnrecorded(t, url, error) ==
  [t |-> t, result |-> Failure(url, error)]

\* except Exception as e: record the attempt as failed, return the error.
OnException(t, url, error) ==
  [t |-> record_url_attempt(t, url, FALSE, error, FALSE, FALSE),
   result |-> Failure(url, error)]

\* scrape_single_recipe(url) on the lists t when the world answers a: the
\* lists afterwards and the returned dict.
scrape_single_recipe(t, url, a) ==
  IF a.check_jsonld /\ a.jsonld = "raise"
    THEN OnException(t, url, "TypeError")
  ELSE IF a.check_jsonld /\ a.jsonld = "none"
    THEN [t |-> record_url_attempt(t, url, FALSE, "No Recipe JSON-LD found",
                                   FALSE, TRUE),
          result |-> [success |-> FALSE, error |-> "No Recipe JSON-LD found",
                      url |-> url, skipped |-> TRUE]]
  ELSE IF a.status_code = "raise"
    THEN OnException(t, url, "ConnectionError")
  ELSE IF a.status_code = "200"
    THEN IF a.body.kind = "not json"
           THEN OnException(t, url, "JSONDecodeError")
         ELSE IF a.body.kind = "list"
           THEN OnException(t, url, "AttributeError")
         ELSE IF "name" \in DOMAIN a.body.dict
           THEN [t |-> record_url_attempt(t, url, TRUE, "None", FALSE, FALSE),
                 result |-> a.body.dict]
         ELSE [t |-> record_url_attempt(
                       t, url, FALSE,
                       Get(a.body.dict, "error", "No recipe data returned"),
                       FALSE, FALSE),
               result |-> a.body.dict]
  ELSE [t |-> record_url_attempt(t, url, FALSE, "HTTP 500", FALSE, FALSE),
        result |-> Failure(url, "HTTP 500")]

\* One round of the loop of scrape_multiple_recipes.
ScrapeSingleRecipe ==
  /\ Len(scrape_results) < Len(urls)
  /\ \E a \in Answers :
       LET r == scrape_single_recipe(Lists, urls[Len(scrape_results) + 1], a)
       IN  /\ SetLists(r.t)
           /\ scrape_results' = Append(scrape_results, r.result)
           /\ answers' = Append(answers, a)
  /\ UNCHANGED <<searcher, urls, crawl, scraper>>

\* scrape_multiple_recipes(urls) on a crawler just constructed.
InitScrape ==
  /\ NoSearcher
  /\ attempted_urls = << >>
  /\ successful_urls = << >>
  /\ failed_urls = << >>
  /\ skipped_urls = << >>
  /\ NoCrawl
  /\ NoScraper
  /\ urls \in SeqsUpTo(Urls, MaxUrls)
  /\ scrape_results = << >>
  /\ answers = << >>

NextScrape == ScrapeSingleRecipe

SpecScrape == InitScrape /\ [][NextScrape]_vars

(***************************************************************************)
(* RecipeCrawler.crawl_from_base.                                          *)
(***************************************************************************)
\* "if len(visited_urls) > 20: break" and "len(urls_to_visit) < 50".
CrawlPageLimit == 20
QueueLimit == 50

\* The largest limit, the number of pages of the sample sites "mesh" and
\* "chain", and the largest number of fetches of one crawl that fail.
MaxLimit == 3
MeshPages == 25
ChainPages == 22
MaxFailures == 1

\* An href of a page: "relative" when it starts with '/', "absolute"
\* when it starts with 'http', "invalid" when it starts with '/' and
\* urljoin raises on it (such as '//['), "other" for the rest.
Href(form, host, kind, n) ==
  [form |-> form, host |-> host, kind |-> kind, n |-> n]

\* The hrefs 'http://a/<content page k>' for k from lo to hi.
RECURSIVE PageLinks(_, _)
PageLinks(lo, hi) ==
  IF lo > hi THEN << >>
  ELSE <<Href("absolute", "a", "content", lo)>> \o PageLinks(lo + 1, hi)

\* The sample sites. "mesh": every page links to every page, to a page
\* of another host, to an asset and to a mailto:, and every eighth page
\* to a recipe of its own. "cycle": three pages in a cycle, with links
\* and recipes that come twice, and an href urljoin raises on. "chain":
\* page n links to page n + 1, the last page to a recipe.
Sites == {"mesh", "cycle", "chain"}

\* The hrefs of the <a> elements of the page at url, in document order.
Links(s, url) ==
  IF s = "mesh"
    THEN (IF url.n % 8 = 0
            THEN <<Href("relative", "", "recipe", url.n)>> ELSE << >>)
         \o PageLinks(1, MeshPages)
         \o <<Href("absolute", "b", "content", 1),
              Href("other", "", "content", 1),
              Href("relative", "", "asset", 1)>>
  ELSE IF s = "cycle"
    THEN IF url.n = 1
           THEN <<Href("relative", "", "content", 2),
                  Href("relative", "", "content", 2),
                  Href("relative", "", "recipe", 1)>>
         ELSE IF url.n = 2
           THEN <<Href("absolute", "a", "content", 3),
                  Href("relative", "", "recipe", 1),
                  Href("absolute", "b", "recipe", 2),
                  Href("invalid", "", "content", 1),
                  Href("relative", "", "recipe", 5)>>
         ELSE <<Href("relative", "", "content", 1),
                Href("relative", "", "content", 2),
                Href("relative", "", "recipe", 3),
                Href("relative", "", "recipe", 4)>>
  ELSE IF url.n < ChainPages
    THEN <<Href("relative", "", "content", url.n + 1)>>
  ELSE <<Href("relative", "", "recipe", 1)>>

\* urljoin(base_url, href) of a relative href, the href itself of an
\* absolute one.
AbsoluteUrl(href) ==
  IF href.form = "relative" THEN Url(base_url.host, href.kind, href.n)
  ELSE Url(href.host, href.kind, href.n)

is_recipe_url(url) == url.kind = "recipe"
is_same_domain(url, base) == url.host = base.host
is_content_page(url) == url.kind # "asset"

\* CrawlLinks at fault: the queue takes a link whatever its length.
RECURSIVE CrawlLinksUnbounded(_, _, _, _, _)
CrawlLinksUnbounded(links, k, discovered, to_visit, visited) ==
  IF k > Len(links) \/ links[k].form = "invalid"
    THEN [discovered_urls |-> discovered, urls_to_visit |-> to_visit]
  ELSE IF links[k].form = "other"
    THEN CrawlLinksUnbounded(links, k + 1, discovered, to_visit, visited)
  ELSE LET absolute_url == AbsoluteUrl(links[k])
       IN  IF is_recipe_url(absolute_url)
             THEN IF absolute_url \notin discovered
                       /\ Cardinality(discovered \cup {absolute_url}) >= limit
                    THEN [discovered_urls |-> discovered \cup {absolute_url},
                          urls_to_visit |-> to_visit]
                  ELSE CrawlLinksUnbounded(links, k + 1,
                                          discovered \cup {absolute_url}, to_visit,
                                          visited)
           ELSE IF /\ is_same_domain(absolute_url, base_url)
                   /\ is_content_page(absolute_url)
                   /\ absolute_url \notin visited
             THEN CrawlLinksUnbounded(links, k + 1, discovered,
                                     Append(to_visit, absolute_url), visited)
           ELSE CrawlLinksUnbounded(links, k + 1, discovered, to_visit, visited)

\* "for link in soup.find_all('a', href=True)" from the k-th link on: the
\* set of discovered urls and the queue when the loop ends, by running out
\* of links, by the break at the limit, or by the exception of an invalid
\* href, which the except clause swallows.
RECURSIVE CrawlLinks(_, _, _, _, _)
CrawlLinks(links, k, discovered, to_visit, visited) ==
  IF k > Len(links) \/ links[k].form = "invalid"
    THEN [discovered_urls |-> discovered, urls_to_visit |-> to_visit]
  ELSE IF links[k].form = "other"
    THEN CrawlLinks(links, k + 1, discovered, to_visit, visited)
  ELSE LET absolute_url == AbsoluteUrl(links[k])
       IN  IF is_recipe_url(absolute_url)
             THEN IF absolute_url \notin discovered
                       /\ Cardinality(discovered \cup {absolute_url}) >= limit
                    THEN [discovered_urls |-> discovered \cup {absolute_url},
                          urls_to_visit |-> to_visit]
                  ELSE CrawlLinks(links, k + 1,
                                 discovered \cup {absolute_url}, to_visit,
                                 visited)
           ELSE IF /\ is_same_domain(absolute_url, base_url)
                   /\ is_content_page(absolute_url)
                   /\ absolute_url \notin visited
                   /\ Len(to_visit) < QueueLimit
             THEN CrawlLinks(links, k + 1, discovered,
                            Append(to_visit, absolute_url), visited)
           ELSE CrawlLinks(links, k + 1, discovered, to_visit, visited)

\* while urls_to_visit and len(discovered_urls) < limit
CrawlOn ==
  /\ crawl_pc = "while"
  /\ urls_to_visit # << >>
  /\ Cardinality(discovered_urls) < limit

\* The fetches of the crawl that failed.
Failures == {k \in DOMAIN fetches : fetches[k].outcome # "200"}

\* The condition of the while loop is false.
CrawlExit ==
  /\ crawl_pc = "while"
  /\ ~CrawlOn
  /\ crawl_pc' = "return"
  /\ UNCHANGED <<site, base_url, limit, discovered_urls, visited_urls,
                 urls_to_visit, fetches, result_urls>>
  /\ UNCHANGED <<searcher, tracking, scraping, scraper>>

\* if current_url in visited_urls: continue
CrawlContinue ==
  /\ CrawlOn
  /\ Head(urls_to_visit) \in visited_urls
  /\ urls_to_visit' = Tail(urls_to_visit)
  /\ UNCHANGED <<site, base_url, limit, discovered_urls, visited_urls,
                 fetches, crawl_pc, result_urls>>
  /\ UNCHANGED <<searcher, tracking, scraping, scraper>>

\* if len(visited_urls) > 20: break
CrawlBreak ==
  /\ CrawlOn
  /\ Head(urls_to_visit) \notin visited_urls
  /\ Cardinality(visited_urls \cup {Head(urls_to_visit)}) > CrawlPageLimit
  /\ urls_to_visit' = Tail(urls_to_visit)
  /\ visited_urls' = visited_urls \cup {Head(urls_to_visit)}
  /\ crawl_pc' = "return"
  /\ UNCHANGED <<site, base_url, limit, discovered_urls, fetches,
                 result_urls>>
  /\ UNCHANGED <<searcher, tracking, scraping, scraper>>

\* One round of the while loop that fetches current_url; the outcome is
\* "200", another status ("404"), or an exception of session.get
\* ("raise").
CrawlFetch(outcome) ==
  /\ CrawlOn
  /\ Head(urls_to_visit) \notin visited_urls
  /\ Cardinality(visited_urls \cup {Head(urls_to_visit)}) <= CrawlPageLimit
  /\ outcome # "200" => Cardinality(Failures) < MaxFailures
  /\ \E current_url \in {Head(urls_to_visit)} :
     \E links \in {Links(site, current_url)} :
     \E visited \in {visited_urls \cup {current_url}} :
     \E after \in {IF outcome = "200"
                     THEN CrawlLinks(links, 1, discovered_urls,
                                     Tail(urls_to_visit), visited)
                   ELSE [discovered_urls |-> discovered_urls,
                         urls_to_visit |-> Tail(urls_to_visit)]} :
         /\ visited_urls' = visited
         /\ fetches' = Append(fetches, [url |-> current_url,
                                        outcome |-> outcome])
         /\ discovered_urls' = after.discovered_urls
         /\ urls_to_visit' = after.urls_to_visit
  /\ UNCHANGED <<site, base_url, limit, crawl_pc, result_urls>>
  /\ UNCHANGED <<searcher, tracking, scraping, scraper>>

\* result_urls = list(discovered_urls)[:limit]; return result_urls. The
\* list of a set has its members in an order of the interpreter's
\* choosing, so the slice is any limit of them.
CrawlReturn ==
  /\ crawl_pc = "return"
  /\ \E r \in SUBSET discovered_urls :
       /\ Cardinality(r) = IF Cardinality(discovered_urls) < limit
                             THEN Cardinality(discovered_urls) ELSE limit
       /\ result_urls' = r
  /\ crawl_pc' = "done"
  /\ UNCHANGED <<site, base_url, limit, discovered_urls, visited_urls,
                 urls_to_visit, fetches>>
  /\ UNCHANGED <<searcher, tracking, scraping, scraper>>

\* crawl_from_base(base_url, limit) has come to its while loop.
InitCrawl ==
  /\ NoSearcher
  /\ attempted_urls = << >>
  /\ successful_urls = << >>
  /\ failed_urls = << >>
  /\ skipped_urls = << >>
  /\ urls = << >>
  /\ scrape_results = << >>
  /\ answers = << >>
  /\ NoScraper
  /\ site \in Sites
  /\ base_url = BaseUrl
  /\ limit \in 0..MaxLimit
  /\ discovered_urls = {}
  /\ visited_urls = {}
  /\ urls_to_visit = <<base_url>>
  /\ fetches = << >>
  /\ crawl_pc = "while"
  /\ result_urls = {}

NextCrawl ==
  \/ CrawlExit
  \/ CrawlContinue
  \/ CrawlBreak
  \/ \E outcome \in {"200", "404", "raise"} : CrawlFetch(outcome)
  \/ CrawlReturn

\* The call runs on its own thread of control and every statement of it
\* returns (session.get has a timeout), so a step that can be taken is
\* taken.
SpecCrawl == InitCrawl /\ [][NextCrawl]_vars /\ WF_vars(NextCrawl)

(***************************************************************************)
(* PacificNorthwestScraper: get_page_content and scrape_recipe.            *)
(***************************************************************************)
\* The largest max_retries of a call of get_page_content, and the largest
\* number of calls of scrape_recipe.
MaxRetries == 3
MaxScraped == 2

RecipeLinks == {"https://whatscookingamerica.net/salmon",
                "https://whatscookingamerica.net/cobbler"}

\* The call of who for url.
ScrapeCall(caller, url) == [caller |-> caller, url |-> url]

\* The start of get_page_content(url, retries), called by caller.
StartGetPageContent(caller, url, retries) ==
  /\ scrape_call' = ScrapeCall(caller, url)
  /\ max_retries' = retries
  /\ attempt' = 0
  /\ gets' = << >>
  /\ sleeps' = << >>
  /\ soup' = "unset"
  /\ scraper_pc' = "for"

\* A caller calls get_page_content(url, max_retries) itself.
GetPageContent(url, retries) ==
  /\ scraper_pc \in {"idle", "done"}
  /\ StartGetPageContent("caller", url, retries)
  /\ UNCHANGED <<scraper_failed_urls, scraped>>
  /\ UNCHANGED <<searcher, tracking, scraping, crawl>>

\* scrape_recipe(url) up to its call of get_page_content(url).
ScrapeRecipe(url) ==
  /\ scraper_pc \in {"idle", "done"}
  /\ Len(scraped) < MaxScraped
  /\ scraped' = Append(scraped, url)
  /\ StartGetPageContent("scrape_recipe", url, DefaultRetries)
  /\ UNCHANGED scraper_failed_urls
  /\ UNCHANGED <<searcher, tracking, scraping, crawl>>

\* OnRequestException at fault: it sleeps after the last attempt too.
OnRequestExceptionSleeping(n, retries, slept) ==
  IF n < retries
    THEN [sleeps |-> Append(slept, 2 ^ n), returns |-> n + 1 >= retries]
  ELSE [sleeps |-> slept, returns |-> TRUE]

\* except RequestException at attempt n: sleep 2 ** attempt when another
\* attempt is to come, return None when not.
OnRequestException(n, retries, slept) ==
  IF n + 1 < retries
    THEN [sleeps |-> Append(slept, 2 ^ n), returns |-> FALSE]
  ELSE [sleeps |-> slept, returns |-> TRUE]

\* One round of "for attempt in range(max_retries)": session.get and
\* raise_for_status go through ("ok"), or raise a RequestException
\* ("failed"), or BeautifulSoup raises something else ("raise"), which
\* get_page_content and scrape_recipe let through.
Attempt(outcome) ==
  /\ scraper_pc = "for"
  /\ attempt < max_retries
  /\ gets' = Append(gets, outcome)
  /\ IF outcome = "ok"
       THEN /\ soup' = "soup"
            /\ scraper_pc' = "returned"
            /\ UNCHANGED <<attempt, sleeps>>
     ELSE IF outcome = "raise"
       THEN /\ scraper_pc' = "done"
            /\ UNCHANGED <<attempt, sleeps, soup>>
     ELSE LET e == OnRequestException(attempt, max_retries, sleeps)
          IN  /\ sleeps' = e.sleeps
              /\ IF e.returns
                   THEN /\ soup' = "None"
                        /\ scraper_pc' = "returned"
                        /\ UNCHANGED attempt
                 ELSE /\ attempt' = attempt + 1
                      /\ UNCHANGED <<soup, scraper_pc>>
  /\ UNCHANGED <<scraper_failed_urls, scrape_call, scraped, max_retries>>
  /\ UNCHANGED <<searcher, tracking, scraping, crawl>>

\* range(max_retries) is empty: the function ends without a return
\* statement, which returns None.
ForExit ==
  /\ scraper_pc = "for"
  /\ attempt >= max_retries
  /\ soup' = "None"
  /\ scraper_pc' = "returned"
  /\ UNCHANGED <<scraper_failed_urls, scrape_call, scraped, max_retries,
                 attempt, gets, sleeps>>
  /\ UNCHANGED <<searcher, tracking, scraping, crawl>>

\* get_page_content has returned to the caller that called it itself.
Returned ==
  /\ scraper_pc = "returned"
  /\ scrape_call.caller = "caller"
  /\ scraper_pc' = "done"
  /\ UNCHANGED <<scraper_failed_urls, scrape_call, scraped, max_retries,
                 attempt, gets, sleeps, soup>>
  /\ UNCHANGED <<searcher, tracking, scraping, crawl>>

\* scrape_recipe after get_page_content: without a page the url goes to
\* failed_urls; with one, extract_recipe_data finds a title or the url
\* goes to failed_urls.
ScrapeRecipeEnd(has_title) ==
  /\ scraper_pc = "returned"
  /\ scrape_call.caller = "scrape_recipe"
  /\ scraper_failed_urls' =
       IF soup = "None" \/ ~has_title
         THEN Append(scraper_failed_urls, scrape_call.url)
       ELSE scraper_failed_urls
  /\ scraper_pc' = "done"
  /\ UNCHANGED <<scrape_call, scraped, max_retries, attempt, gets, sleeps,
                 soup>>
  /\ UNCHANGED <<searcher, tracking, scraping, crawl>>

InitScraper ==
  /\ NoSearcher
  /\ attempted_urls = << >>
  /\ successful_urls = << >>
  /\ failed_urls = << >>
  /\ skipped_urls = << >>
  /\ urls = << >>
  /\ scrape_results = << >>
  /\ answers = << >>
  /\ NoCrawl
  /\ NoScraper

NextScraper ==
  \/ \E url \in RecipeLinks, retries \in 0..MaxRetries :
       GetPageContent(url, retries)
  \/ \E url \in RecipeLinks : ScrapeRecipe(url)
  \/ \E outcome \in {"ok", "failed", "raise"} : Attempt(outcome)
  \/ ForExit
  \/ Returned
  \/ \E has_title \in BOOLEAN : ScrapeRecipeEnd(has_title)

\* The scraper runs on the one thread of its script, and session.get has
\* a timeout, so a call that has begun goes on.
SpecScraper ==
  /\ InitScraper
  /\ [][NextScraper]_vars
  /\ WF_vars((\E outcome \in {"ok", "failed", "raise"} : Attempt(outcome))
               \/ ForExit)

(***************************************************************************)
(* The claims.                                                             *)
(***************************************************************************)
RecipeIds == 0..(Len(recipes) - 1)

\* The tokens of a text, and of a list of lines.
TokenSet(text) == Range(Words(text))
LineTokens(lines) == UNION {TokenSet(lines[k]) : k \in DOMAIN lines}

TitleTokens(i) == TokenSet(Get(recipes[i + 1], "title", << >>))
IngredientLines(i) == Get(recipes[i + 1], "ingredients", << >>)
InstructionTokens(i) == LineTokens(Get(recipes[i + 1], "instructions", << >>))

\* No id twice in a returned list.
NoDuplicates(ids) == \A j, k \in DOMAIN ids : j # k => ids[j] # ids[k]

\* C1: for a query with at least one token, search_by_title returns exactly
\* the records whose ids are in the intersection of title_index[w] over the
\* query's tokens w (a token without entry counting as the empty set), each
\* once; and that id set is the intersection of the id sets search_by_title
\* returns for the single tokens.
C1_TitleSearchIsIntersection ==
  LET query_words == Words(last.q)
  IN  (last.op = "title" /\ query_words # << >>) =>
        /\ Range(last.ids) =
             {i \in RecipeIds : \A k \in DOMAIN query_words :
                                  i \in Get(title_index, query_words[k], {})}
        /\ NoDuplicates(last.ids)
        /\ \A i \in RecipeIds :
             i \in Range(last.ids) <=>
               \A k \in DOMAIN query_words :
                 i \in Range(search_by_title(query_words[k]))

\* C1's case: a title search for two tokens returned a record and left out
\* a record that has the second token only.
C1_Witness ==
  LET query_words == Words(last.q)
  IN  /\ last.op = "title"
      /\ Len(query_words) = 2
      /\ last.ids # << >>
      /\ \E i \in RecipeIds :
           /\ i \in Get(title_index, query_words[2], {})
           /\ i \notin Range(last.ids)

\* C2: for a query with at least one token, search_by_ingredient returns
\* the record with id i if and only if every query token is a token of at
\* least one ingredient line of recipe i, and returns it once.
C2_IngredientSearchEndToEnd ==
  LET ingredient_words == Words(last.q)
  IN  (last.op = "ingredient" /\ ingredient_words # << >>) =>
        /\ Range(last.ids) \subseteq RecipeIds
        /\ NoDuplicates(last.ids)
        /\ \A i \in RecipeIds :
             i \in Range(last.ids) <=>
               \A t \in Range(ingredient_words) :
                 \E l \in DOMAIN IngredientLines(i) :
                   t \in TokenSet(IngredientLines(i)[l])

\* C2's case: an ingredient search returned a recipe none of whose lines
\* holds all query tokens, and left another recipe out.
C2_Witness ==
  LET ingredient_words == Words(last.q)
  IN  /\ last.op = "ingredient"
      /\ Len(ingredient_words) = 2
      /\ \E i \in Range(last.ids) :
           \A l \in DOMAIN IngredientLines(i) :
             ~(Range(ingredient_words) \subseteq TokenSet(IngredientLines(i)[l]))
      /\ Range(last.ids) # RecipeIds

\* C3: search_by_cooking_method returns the record with id i if and only if
\* every query token is a title token or an instruction token of recipe i
\* (per token the union of title_index and instruction_index, across tokens
\* the intersection).
C3_MethodSearchTitleOrInstructions ==
  LET method_words == Words(last.q)
  IN  (last.op = "method" /\ method_words # << >>) =>
        /\ Range(last.ids) \subseteq RecipeIds
        /\ NoDuplicates(last.ids)
        /\ \A i \in RecipeIds :
             i \in Range(last.ids) <=>
               \A t \in Range(method_words) :
                 t \in TitleTokens(i) \cup InstructionTokens(i)
        /\ \A i \in RecipeIds :
             i \in Range(last.ids) <=>
               \A t \in Range(method_words) :
                 i \in Get(title_index, t, {}) \cup Get(instruction_index, t, {})

\* C3's case: a two-token method search returned a recipe with one token
\* only in its title and the other only in its instructions, and left out a
\* recipe that has one of the tokens and lacks the other in both fields.
C3_Witness ==
  LET method_words == Words(last.q)
  IN  /\ last.op = "method"
      /\ Len(method_words) = 2
      /\ \E i \in Range(last.ids) :
           /\ method_words[1] \in TitleTokens(i) \ InstructionTokens(i)
           /\ method_words[2] \in InstructionTokens(i) \ TitleTokens(i)
      /\ \E i \in RecipeIds \ Range(last.ids) :
           \E t \in Range(method_words) :
             t \in TitleTokens(i) \cup InstructionTokens(i)

\* The tokens of the inputs: what a query may be extended by.
Vocabulary == UNION {TokenSet(q) : q \in Queries}

\* The set of (id, score) pairs of a list search_general returns.
ScoredIds(matching_recipes) ==
  {<<matching_recipes[k].idx, matching_recipes[k].score>> :
     k \in DOMAIN matching_recipes}

\* C4: search_general returns exactly one record for each recipe id that
\* keyword_index holds under at least one token of the query, and no other;
\* a token without entry in keyword_index, added to the query, changes
\* neither the returned recipes nor any search_score.
C4_GeneralSearchIsUnion ==
  LET query_words == Words(last.q)
  IN  last.op = "general" =>
        /\ Range(last.ids) =
             {i \in RecipeIds : \E k \in DOMAIN query_words :
                                  i \in Get(keyword_index, query_words[k], {})}
        /\ NoDuplicates(last.ids)
        /\ \A z \in Vocabulary \ DOMAIN keyword_index :
             /\ ScoredIds(search_general(last.q \o <<" ">> \o z)) =
                  {<<last.ids[k], last.scores[k]>> : k \in DOMAIN last.ids}
             /\ ScoredIds(search_general(z \o <<" ">> \o last.q)) =
                  {<<last.ids[k], last.scores[k]>> : k \in DOMAIN last.ids}

\* C4's case: a general search for two tokens returned a recipe that holds
\* only one of them, and some token has no entry in keyword_index.
C4_Witness ==
  LET query_words == Words(last.q)
  IN  /\ last.op = "general"
      /\ Len(query_words) = 2
      /\ \E i \in Range(last.ids) :
           \E k \in DOMAIN query_words :
             i \notin Get(keyword_index, query_words[k], {})
      /\ Vocabulary \ DOMAIN keyword_index # {}

\* C5: each record search_general returns carries a search_score equal to
\* the number of distinct query tokens it matched, also when the query
\* repeats a token.
C5_ScoreCountsDistinctTokens ==
  last.op = "general" =>
    \A k \in DOMAIN last.ids :
      last.scores[k] =
        Cardinality({t \in TokenSet(last.q) :
                       last.ids[k] \in Get(keyword_index, t, {})})

\* The ids in the order the scoring loop meets them: token by token in
\* query order, each token's id set in its iteration order.
RECURSIVE EncounterSeq(_)
EncounterSeq(query_words) ==
  IF query_words = << >> THEN << >>
  ELSE IterSet(Get(keyword_index, Head(query_words), {}))
         \o EncounterSeq(Tail(query_words))

\* Where id i is first met.
FirstSeen(seq, i) ==
  CHOOSE k \in DOMAIN seq : seq[k] = i /\ \A j \in 1..(k - 1) : seq[j] # i

\* C6: the list search_general returns is sorted non-increasing by
\* search_score, and records of equal score are in the order in which their
\* ids were first met while the scores were accumulated.
C6_SortedByScoreTiesInEncounterOrder ==
  LET seen == EncounterSeq(Words(last.q))
  IN  last.op = "general" =>
        \A j, k \in DOMAIN last.ids :
          j < k =>
            /\ last.scores[j] >= last.scores[k]
            /\ last.scores[j] = last.scores[k] =>
                 FirstSeen(seen, last.ids[j]) < FirstSeen(seen, last.ids[k])

\* C6's case: a general search returned two records of equal score, the one
\* met first (which has the larger id) before the other.
C6_Witness ==
  /\ last.op = "general"
  /\ \E j, k \in DOMAIN last.ids :
       /\ j < k
       /\ last.scores[j] = last.scores[k]
       /\ last.ids[j] > last.ids[k]

\* C7: every operation returns the empty list for a query that is empty or
\* holds no alphanumeric character.
C7_EmptyQueryReturnsNothing ==
  (last.op # "none" /\ \A k \in DOMAIN last.q : ~IsAlnum(last.q[k])) =>
    last.ids = << >>

\* C8: in title, ingredient and cooking-method search, a query token
\* without entry in the consulted index (the first, a middle or the last
\* token) makes the result the empty list.
C8_AbsentTokenReturnsNothing ==
  LET query_words == Words(last.q)
      absent(consulted) ==
        \E k \in DOMAIN query_words : query_words[k] \notin consulted
  IN  /\ (last.op = "title" /\ absent(DOMAIN title_index)) =>
            last.ids = << >>
      /\ (last.op = "ingredient" /\ absent(DOMAIN ingredient_index)) =>
            last.ids = << >>
      /\ (last.op = "method"
            /\ absent(DOMAIN title_index \cup DOMAIN instruction_index)) =>
            last.ids = << >>

\* C8's case: a title search whose first token has no entry and whose
\* second token has one returned nothing.
C8_Witness ==
  LET query_words == Words(last.q)
  IN  /\ last.op = "title"
      /\ Len(query_words) = 2
      /\ query_words[1] \notin DOMAIN title_index
      /\ Get(title_index, query_words[2], {}) # {}
      /\ last.ids = << >>

\* str.upper() on one character: a text, since the sharp s becomes SS.
UpperChar(c) ==
  IF c = SharpS THEN <<"S", "S">>
  ELSE IF \E k \in DOMAIN LowerLetters : LowerLetters[k] = c
         THEN <<UpperLetters[CHOOSE k \in DOMAIN LowerLetters :
                               LowerLetters[k] = c]>>
         ELSE <<c>>

\* str.upper()
RECURSIVE Upper(_)
Upper(text) == IF text = << >> THEN << >>
               ELSE UpperChar(Head(text)) \o Upper(Tail(text))

\* The ids operation op returns for query q.
IdsOf(op, q) ==
  CASE op = "title" -> search_by_title(q)
    [] op = "ingredient" -> search_by_ingredient(q)
    [] op = "method" -> search_by_cooking_method(q)
    [] op = "general" -> Idxs(search_general(q))
    [] op = "dietary" -> Idxs(search_by_dietary_needs(q))

\* C9: title, ingredient, cooking-method and general search return the same
\* records for a query, for the query upper-cased and for it lower-cased.
C9_CaseInsensitive ==
  last.op \in {"title", "ingredient", "method", "general"} =>
    /\ Range(IdsOf(last.op, Upper(last.q))) = Range(last.ids)
    /\ Range(IdsOf(last.op, Lower(last.q))) = Range(last.ids)

\* C10: a call repeated on the same engine, other calls between, returns
\* the same records, and for general and dietary search in the same order
\* with the same scores.
C10_RepeatedCallSameResult ==
  (memo.call.op # "none" /\ last.op = memo.call.op /\ last.q = memo.call.q) =>
    /\ Range(last.ids) = Range(memo.call.ids)
    /\ Len(last.ids) = Len(memo.call.ids)
    /\ last.op \in {"general", "dietary"} =>
         /\ last.ids = memo.call.ids
         /\ last.scores = memo.call.scores

\* C10's case: a general search that returned two records is repeated
\* after another call.
C10_Witness ==
  /\ memo.call.op = "general"
  /\ memo.others
  /\ last.op = memo.call.op
  /\ last.q = memo.call.q
  /\ Len(last.ids) >= 2

\* The tokens of the fields keyword_index covers.
IngredientTokens(i) == LineTokens(IngredientLines(i))
OtherFieldTokens(i) ==
  UNION {TokenSet(Get(recipes[i + 1], OtherFields[k], << >>)) :
           k \in DOMAIN OtherFields}
KeywordTokens(i) ==
  IngredientTokens(i) \cup InstructionTokens(i) \cup OtherFieldTokens(i)

\* C11: matching is by whole token: a recipe is returned only when the
\* query's tokens themselves are tokens of the searched fields (all of
\* them for title, ingredient and cooking-method search, at least one for
\* general search); a token that only begins a token of the recipe ("cra"
\* for "crab") or only extends one ("baked" for "bake") does not match.
C11_WholeTokenMatching ==
  LET query_words == Words(last.q)
  IN  \A i \in Range(last.ids) :
        /\ last.op = "title" => Range(query_words) \subseteq TitleTokens(i)
        /\ last.op = "ingredient" =>
              Range(query_words) \subseteq IngredientTokens(i)
        /\ last.op = "method" =>
              Range(query_words) \subseteq
                (TitleTokens(i) \cup InstructionTokens(i))
        /\ last.op = "general" =>
              Range(query_words) \cap KeywordTokens(i) # {}

\* C11's case: a general search for one token that begins a token of a
\* recipe's ingredients without being one did not return that recipe.
C11_Witness ==
  LET query_words == Words(last.q)
  IN  /\ last.op = "general"
      /\ Len(query_words) = 1
      /\ \E i \in RecipeIds :
           /\ \E t \in IngredientTokens(i) :
                t # query_words[1] /\ IsPrefix(query_words[1], t)
           /\ query_words[1] \notin KeywordTokens(i)
           /\ i \notin Range(last.ids)

\* The records, search_score included, of the list the last call returned.
ReturnedRecords ==
  {ScoredCopy(last.ids[k], last.scores[k]) : k \in DOMAIN last.ids}

KeywordsOf(dietary_type) ==
  Get(dietary_keywords, Lower(dietary_type), <<dietary_type>>)

\* The scores recipe i obtains in the general searches for the keywords.
ScoresOver(keywords, i) ==
  UNION {{search_general(keywords[k])[j].score :
            j \in {n \in DOMAIN search_general(keywords[k]) :
                     search_general(keywords[k])[n].idx = i}} :
           k \in DOMAIN keywords}

\* C13: search_by_dietary_needs returns exactly one record for each recipe
\* id that the general search for at least one keyword returns, also when
\* two stored records have equal fields, and the record carries the highest
\* search_score its recipe obtained in the keyword searches.
C13_DietaryDedupesById ==
  last.op = "dietary" =>
    LET keywords == KeywordsOf(last.q)
    IN  /\ Range(last.ids) =
             {i \in RecipeIds : ScoresOver(keywords, i) # {}}
        /\ NoDuplicates(last.ids)
        /\ \A k \in DOMAIN last.ids :
             \A s \in ScoresOver(keywords, last.ids[k]) : last.scores[k] >= s

\* The list of records, search_score included, of a list search_general
\* returns.
RecordsOf(matching_recipes) ==
  [k \in DOMAIN matching_recipes |->
     ScoredCopy(matching_recipes[k].idx, matching_recipes[k].score)]

\* C14: for a category that is no key of dietary_keywords,
\* search_by_dietary_needs returns the records search_general returns for
\* the category string, in the same order and with the same scores.
C14_UnknownCategoryIsGeneralSearch ==
  (last.op = "dietary" /\ Lower(last.q) \notin DOMAIN dietary_keywords) =>
    [k \in DOMAIN last.ids |-> ScoredCopy(last.ids[k], last.scores[k])] =
      RecordsOf(search_general(last.q))

\* C15: search_general returns every recipe that holds a token of the
\* query in its title, ingredients, instructions, description, category,
\* cuisine or author.
C15_GeneralSearchCoversAllFields ==
  last.op = "general" =>
    \A i \in RecipeIds :
      Range(Words(last.q)) \cap (TitleTokens(i) \cup KeywordTokens(i)) # {}
        => i \in Range(last.ids)

\* C16: when the source is missing, is not JSON, has no object on top,
\* or has a 'recipes' value that is null or no list of records, the
\* constructor does not raise, the store has zero records, and every query
\* returns the empty list.
C16_LoadFailsSoftly ==
  json_file \in MalformedSources =>
    /\ status = "ready"
    /\ recipes = << >>
    /\ last.op # "none" => last.ids = << >>

\* A record with every None field taken as absent.
WithoutNone(recipe) ==
  [f \in {g \in DOMAIN recipe :
            IF g \in {"ingredients", "instructions"}
              THEN recipe[g] # NoneLines
              ELSE recipe[g] # NoneText} |->
     recipe[f]]

\* C17: for every loaded list of records, fields absent or None among
\* them, the constructor's build_search_indices does not raise, the four
\* indices are those of the records with the None fields taken as empty,
\* and the store is the loaded list.
C17_BuildIsTotal ==
  (json_file.kind = "json" /\ json_file.top = "object" /\ json_file.key
     /\ json_file.type = "list") =>
    /\ status = "ready"
    /\ recipes = json_file.items
    /\ LET ix == BuildSearchIndices(
                   [k \in DOMAIN recipes |-> WithoutNone(recipes[k])]).ix
       IN  /\ title_index = ix.title
           /\ ingredient_index = ix.ingredient
           /\ instruction_index = ix.instruction
           /\ keyword_index = ix.keyword

\* C18: on the store [Grilled King Salmon, Blackberry Cobbler] (ids 0 and
\* 1), ingredient search "salmon" returns [0], cooking-method search
\* "grilled" returns [0] and "baked" returns [], general search
\* "salmon wine" returns [0] with search_score 2, and dietary search
\* "dessert" returns [1].
C18_EndToEndScenario ==
  recipes = <<R_GrilledKingSalmon, R_BlackberryCobbler>> =>
    /\ (last.op = "ingredient" /\ last.q = Q_Salmon) => last.ids = <<0>>
    /\ (last.op = "method" /\ last.q = Q_Grilled) => last.ids = <<0>>
    /\ (last.op = "method" /\ last.q = Q_Baked) => last.ids = << >>
    /\ (last.op = "general" /\ last.q = Q_SalmonWine) =>
         last.ids = <<0>> /\ last.scores = <<2>>
    /\ (last.op = "dietary" /\ last.q = Q_DessertLower) => last.ids = <<1>>

\* C18's case: the dietary search "dessert" was made on the scenario's
\* store, whose ids iterate 1 before 0.
C18_Witness ==
  /\ recipes = <<R_GrilledKingSalmon, R_BlackberryCobbler>>
  /\ set_order = <<1, 0>>
  /\ last.op = "dietary"
  /\ last.q = Q_DessertLower
  /\ last.ids # << >>

\* C19: no call of a search operation changes self.recipes, a stored
\* record or one of the four indices: no key is added, not even one with
\* an empty set, and search_score is set on the returned copy only.
C19_QueriesAreReadOnly ==
  [][last'.op \in {"title", "ingredient", "method", "general", "dietary"} =>
       /\ recipes' = recipes
       /\ \A k \in DOMAIN recipes' : "search_score" \notin DOMAIN recipes'[k]
       /\ title_index' = title_index
       /\ ingredient_index' = ingredient_index
       /\ instruction_index' = instruction_index
       /\ keyword_index' = keyword_index]_vars

\* C19's case: a general search one of whose tokens has no entry in
\* keyword_index has returned a record with its search_score, and the
\* token still has no entry and no stored record a search_score.
C19_Witness ==
  /\ last.op = "general"
  /\ last.scores # << >>
  /\ Range(Words(last.q)) \ DOMAIN keyword_index # {}
  /\ \A k \in DOMAIN recipes : "search_score" \notin DOMAIN recipes[k]

\* Every token of the store and of the indices.
StoreTokens ==
  UNION {TitleTokens(i) \cup KeywordTokens(i) : i \in RecipeIds}
    \cup DOMAIN title_index \cup DOMAIN ingredient_index
    \cup DOMAIN instruction_index \cup DOMAIN keyword_index

\* C20: recipe id i is in index[t] if and only if t is a token of the
\* fields the index covers for recipe i: the title for title_index, the
\* ingredient lines for ingredient_index, the instruction lines for
\* instruction_index, and ingredients, instructions, description,
\* category, cuisine and author for keyword_index; the indices hold ids of
\* the store only, and keyword_index[t] contains ingredient_index[t] and
\* instruction_index[t].
C20_IndexHoldsFieldTokens ==
  \A t \in StoreTokens :
    /\ Get(title_index, t, {}) = {i \in RecipeIds : t \in TitleTokens(i)}
    /\ Get(ingredient_index, t, {}) =
         {i \in RecipeIds : t \in IngredientTokens(i)}
    /\ Get(instruction_index, t, {}) =
         {i \in RecipeIds : t \in InstructionTokens(i)}
    /\ Get(keyword_index, t, {}) =
         {i \in RecipeIds : t \in KeywordTokens(i)}
    /\ Get(ingredient_index, t, {}) \subseteq Get(keyword_index, t, {})
    /\ Get(instruction_index, t, {}) \subseteq Get(keyword_index, t, {})

\* C20's case: the indices of a store of two records, one of which holds
\* a token in its category and in no other field and is in keyword_index
\* under it, and one of which holds a token in its title only, which has
\* no entry in keyword_index.
C20_Witness ==
  /\ Len(recipes) = 2
  /\ \E i \in RecipeIds :
       \E t \in TokenSet(Get(recipes[i + 1], "category", << >>)) :
         /\ t \notin IngredientTokens(i) \cup InstructionTokens(i)
         /\ t \notin TokenSet(Get(recipes[i + 1], "description", << >>))
         /\ i \in Get(keyword_index, t, {})
  /\ \E i \in RecipeIds :
       \E t \in TitleTokens(i) : t \notin DOMAIN keyword_index

\* The four indices.
Indices == {title_index, ingredient_index, instruction_index, keyword_index}

\* How often the token t occurs in the lines.
Occurrences(t, lines) ==
  Cardinality({kj \in UNION {{<<k, j>> : j \in DOMAIN Words(lines[k])} :
                                k \in DOMAIN lines} :
                 Words(lines[kj[1]])[kj[2]] = t})

\* The texts of recipe i that keyword_index covers, as one list of lines.
KeywordLines(i) ==
  IngredientLines(i) \o Get(recipes[i + 1], "instructions", << >>)
    \o [k \in DOMAIN OtherFields |-> Get(recipes[i + 1], OtherFields[k], << >>)]

\* C21: after construction and after any sequence of queries, every key
\* of each of the four indices maps to a non-empty set of ids of the
\* store, which holds an id once however often the token occurs in the
\* recipe: as many ids as recipes with the token.
C21_KeysMapToNonEmptySets ==
  /\ \A index \in Indices :
       \A t \in DOMAIN index : index[t] # {} /\ index[t] \subseteq RecipeIds
  /\ \A t \in DOMAIN keyword_index :
       Cardinality(keyword_index[t]) =
         Cardinality({i \in RecipeIds : Occurrences(t, KeywordLines(i)) > 0})

\* C21's case: an ingredient search for a token without entry has been
\* made on a store one of whose recipes holds a token twice in the
\* fields keyword_index covers.
C21_Witness ==
  /\ last.op = "ingredient"
  /\ Range(Words(last.q)) \ DOMAIN ingredient_index # {}
  /\ \E i \in RecipeIds :
       \E t \in DOMAIN keyword_index :
         Occurrences(t, KeywordLines(i)) >= 2

\* C22: the tokens of a text, in an index and in a query, are its maximal
\* runs of alphanumeric characters, lower-cased: no token holds another
\* character, the underscore among them.
C22_TokensAreAlphanumericRuns ==
  /\ \A index \in Indices :
       \A t \in DOMAIN index : \A k \in DOMAIN t : IsAlnum(t[k])
  /\ \A k \in DOMAIN Words(last.q) :
       \A j \in DOMAIN Words(last.q)[k] : IsAlnum(Words(last.q)[k][j])

\* The first keyword whose general search returns recipe i, and the
\* place of i in the list of that search.
FirstKeyword(keywords, i) ==
  CHOOSE k \in DOMAIN keywords :
    /\ i \in Range(Idxs(search_general(keywords[k])))
    /\ \A j \in 1..(k - 1) :
         i \notin Range(Idxs(search_general(keywords[j])))
PlaceIn(list, i) == CHOOSE k \in DOMAIN list : list[k].idx = i

\* C23: the list search_by_dietary_needs returns is in the order of first
\* encounter: a record found under an earlier keyword of the list stands
\* before one first found under a later keyword, and records first found
\* under the same keyword stand as search_general returned them.
C23_DietaryOrderIsFirstEncounter ==
  last.op = "dietary" =>
    LET keywords == KeywordsOf(last.q)
    IN  \A a, b \in DOMAIN last.ids :
          a < b =>
            LET ka == FirstKeyword(keywords, last.ids[a])
                kb == FirstKeyword(keywords, last.ids[b])
            IN  \/ ka < kb
                \/ /\ ka = kb
                   /\ PlaceIn(search_general(keywords[ka]), last.ids[a])
                        < PlaceIn(search_general(keywords[ka]), last.ids[b])

\* C23's case: a dietary search returned the recipe of the higher id
\* first, found under an earlier keyword than the recipe of the lower id,
\* although the ids iterate in ascending order.
C23_Witness ==
  /\ last.op = "dietary"
  /\ set_order = <<0, 1>>
  /\ last.ids = <<1, 0>>
  /\ FirstKeyword(KeywordsOf(last.q), 1) < FirstKeyword(KeywordsOf(last.q), 0)

\* The four indices are those of a complete build over the store.
IndicesComplete ==
  LET ix == BuildSearchIndices(recipes).ix
  IN  /\ title_index = ix.title
      /\ ingredient_index = ix.ingredient
      /\ instruction_index = ix.instruction
      /\ keyword_index = ix.keyword

\* C24: a query never reads a partially built index: whenever a query
\* operation is called, at construction or while build_search_indices
\* runs again, the four indices are those of a complete build.
C24_NoQuerySeesPartialIndex ==
  [][(last.op = "none" /\ last'.op # "none") => IndicesComplete]_vars

\* C25: on a constructed engine no search operation raises, whatever the
\* query: every id of every index, and so every id a result is made of,
\* is a position of the store.
C25_SearchesNeverRaise ==
  /\ ~last.raised
  /\ \A k \in DOMAIN last.ids : last.ids[k] \in RecipeIds
  /\ \A index \in Indices :
       \A t \in DOMAIN index : \A i \in index[t] : 0 <= i /\ i < Len(recipes)

\* C25's case: a general search with a token that has no entry returned
\* the record at the last position of a store of two or more.
C25_Witness ==
  /\ last.op = "general"
  /\ ~last.raised
  /\ Len(recipes) >= 2
  /\ Range(Words(last.q)) \ DOMAIN keyword_index # {}
  /\ Len(recipes) - 1 \in Range(last.ids)

\* C26: whatever public methods were called, the four indices are those
\* of a build over the current store, no index holds an id that is no
\* position of the store, and no query raises.
C26_IndicesMatchStore ==
  /\ IndicesComplete
  /\ \A index \in Indices :
       \A t \in DOMAIN index : index[t] \subseteq RecipeIds
  /\ ~last.raised

\* How often the record stands in the list.
CountIn(list, record) == Cardinality({k \in DOMAIN list : list[k] = record})

\* C27: after any calls of record_url_attempt and clear_url_history,
\* every record of attempted_urls stands in exactly one of
\* successful_urls, failed_urls and skipped_urls, in skipped_urls when it
\* was recorded as skipped, the lengths add up, in get_url_statistics
\* too, and clear_url_history leaves the four lists empty.
C27_TrackingListsPartition ==
  /\ [](/\ \A k \in DOMAIN attempted_urls :
            LET record == attempted_urls[k]
            IN  /\ CountIn(attempted_urls, record) =
                     CountIn(successful_urls, record)
                       + CountIn(failed_urls, record)
                       + CountIn(skipped_urls, record)
                /\ Cardinality({list \in {successful_urls, failed_urls,
                                           skipped_urls} :
                                  CountIn(list, record) > 0}) = 1
                /\ record.skipped => CountIn(skipped_urls, record) > 0
        /\ Len(attempted_urls) =
             Len(successful_urls) + Len(failed_urls) + Len(skipped_urls)
        /\ get_url_statistics.total_attempted =
             get_url_statistics.successful + get_url_statistics.failed
               + get_url_statistics.skipped)
  /\ [][Len(attempted_urls') < Len(attempted_urls) =>
         /\ attempted_urls' = << >>
         /\ successful_urls' = << >>
         /\ failed_urls' = << >>
         /\ skipped_urls' = << >>]_vars

\* C27's case: three attempts are recorded, one in each list, the
\* skipped one recorded with success.
C27_Witness ==
  /\ Len(attempted_urls) = 3
  /\ Len(successful_urls) = 1
  /\ Len(failed_urls) = 1
  /\ Len(skipped_urls) = 1
  /\ skipped_urls[1].success

\* The clipper was asked and answered 200 with an object holding 'name'.
ClippedWithName(a) ==
  /\ ~a.check_jsonld \/ a.jsonld = "recipe"
  /\ a.status_code = "200"
  /\ a.body.kind = "dict"
  /\ "name" \in DOMAIN a.body.dict

\* C28: every call of scrape_single_recipe appends exactly one record to
\* attempted_urls, for the url it was called with, on every path; the
\* record is in successful_urls exactly when the clipper answered 200
\* with a body holding 'name'; so after scrape_multiple_recipes the list
\* has one record per url.
C28_OneAttemptRecordPerScrape ==
  /\ Len(attempted_urls) = Len(scrape_results)
  /\ \A k \in DOMAIN attempted_urls :
       /\ attempted_urls[k].url = urls[k]
       /\ CountIn(successful_urls, attempted_urls[k]) > 0
            <=> ClippedWithName(answers[k])
       /\ attempted_urls[k].success <=> ClippedWithName(answers[k])
  /\ Len(attempted_urls) =
       Len(successful_urls) + Len(failed_urls) + Len(skipped_urls)

\* C28's case: scrape_multiple_recipes is through its two urls; at the
\* first the call raised, at the second the clipper returned a recipe.
C28_Witness ==
  /\ Len(urls) = 2
  /\ Len(scrape_results) = 2
  /\ answers[1].status_code = "raise"
  /\ ClippedWithName(answers[2])
  /\ Len(attempted_urls) = 2

\* C29: crawl_from_base comes to its return on every site, cyclic ones
\* included; it fetches no URL twice and at most 20 pages, its queue
\* never holds more than 50 entries, it fetches nothing once limit
\* recipe URLs are discovered, it returns at most limit distinct URLs,
\* all of them discovered, and a fetch that fails or answers another
\* status than 200 only drops that page from the queue.
C29_CrawlIsBoundedAndTerminates ==
  /\ [](/\ \A i, j \in DOMAIN fetches :
            fetches[i].url = fetches[j].url => i = j
        /\ Len(fetches) <= CrawlPageLimit
        /\ Len(urls_to_visit) <= QueueLimit
        /\ Cardinality(discovered_urls) <= limit
        /\ crawl_pc = "done" =>
             /\ result_urls \subseteq discovered_urls
             /\ Cardinality(result_urls) <= limit)
  /\ [][/\ Cardinality(discovered_urls) >= limit => fetches' = fetches
        /\ (Len(fetches') > Len(fetches)
              /\ fetches'[Len(fetches')].outcome # "200") =>
             /\ discovered_urls' = discovered_urls
             /\ urls_to_visit' = Tail(urls_to_visit)
             /\ crawl_pc' = "while"]_vars
  /\ <>(crawl_pc = "done")

\* C29's case: the crawl of the mesh has returned after 20 fetches, one
\* of which failed, with its queue all but full and visited_urls beyond
\* the page limit.
C29_Witness ==
  /\ crawl_pc = "done"
  /\ site = "mesh"
  /\ Len(fetches) = CrawlPageLimit
  /\ Failures # {}
  /\ Len(urls_to_visit) = QueueLimit - 1
  /\ Cardinality(visited_urls) > CrawlPageLimit
  /\ result_urls # {}

\* C30: a call of get_page_content makes at most max_retries attempts,
\* each but the last of them failed; it returns the page at the first
\* attempt that goes through; it has slept 2 ** attempt after each failed
\* attempt but the max_retries-th; it returns None when max_retries
\* attempts have failed, and then only, and it does return; scrape_recipe
\* then appends the url to failed_urls once.
C30_RetriesAreBounded ==
  /\ [](/\ Len(gets) <= max_retries
        /\ \A k \in DOMAIN gets : k < Len(gets) => gets[k] = "failed"
        /\ soup = "soup" => gets # << >> /\ gets[Len(gets)] = "ok"
        /\ soup = "None" =>
             /\ Len(gets) = max_retries
             /\ \A k \in DOMAIN gets : gets[k] = "failed"
        /\ \A k \in DOMAIN sleeps : sleeps[k] = 2 ^ (k - 1)
        /\ Len(sleeps) =
             Cardinality({k \in DOMAIN gets :
                            gets[k] = "failed" /\ k < max_retries}))
  /\ [][/\ (scraper_pc = "returned" /\ scraper_pc' = "done"
              /\ scrape_call.caller = "scrape_recipe" /\ soup = "None") =>
             scraper_failed_urls' =
               Append(scraper_failed_urls, scrape_call.url)
        /\ scraper_pc' # "done" =>
             scraper_failed_urls' = scraper_failed_urls]_vars
  /\ (scraper_pc = "for") ~> (scraper_pc # "for")

\* C30's case: scrape_recipe is through with a url whose three attempts
\* failed, after sleeps of 1 and 2 seconds, and the url is in failed_urls
\* once.
C30_Witness ==
  /\ scraper_pc = "done"
  /\ scrape_call.caller = "scrape_recipe"
  /\ gets = <<"failed", "failed", "failed">>
  /\ sleeps = <<1, 2>>
  /\ soup = "None"
  /\ scraper_failed_urls = <<scrape_call.url>>

====
